---- MODULE Spec2Model ----
(***************************************************************************)
(* Signal-detection pipeline of position-keeper-cloud: SignalGenerator     *)
(* (vertex classification of a fitted quadratic, stability smoothing over  *)
(* a bounded per-symbol history).                                          *)
(*                                                                         *)
(* The repository holds two versions of SignalGenerator:                   *)
(*   "indicators" : src/indicators/src/services/SignalGenerator.ts         *)
(*   "part_000"   : src/unnamed/part_000                                   *)
(* The variable `build` says which one is running; every operator that     *)
(* differs between the two takes the build as its first parameter.         *)
(*                                                                         *)
(* Numbers.  Prices are integers (price ticks).  A real number is a        *)
(* rational [num, den] with den > 0.  A confidence stored in a record is   *)
(* an integer count of 1/ConfScale, so that hundredths, their mean over    *)
(* STABILITY_BUFFER entries and their product with 0.8 are all exact.      *)
(* Timestamps are epoch milliseconds; toLocalTimezone keeps the seconds.   *)
(***************************************************************************)
EXTENDS Integers, Sequences, FiniteSets, TLC

VARIABLES build, clock, evals, signalHistory, submitted, classified, call, result,
          callers, config, overrides, sinceClear, tokens, dbTokens, priceHistories, app

vars == <<build, clock, evals, signalHistory, submitted, classified, call, result,
          callers, config, overrides, sinceClear, tokens, dbTokens, priceHistories, app>>

\* the state of the services around the generator
serviceVars == <<tokens, dbTokens, priceHistories, app>>

(***************************************************************************)
(* Configuration                                                           *)
(***************************************************************************)
MIN_VERTEX_AGE == 20
MAX_VERTEX_AGE == 120
SIGNAL_EXPIRY_MINUTES == 15
STABILITY_BUFFER == 3
\* 1.5 percent
MIN_MAGNITUDE == [num |-> 3, den |-> 2]
\* samples needed, and used, by one evaluation
WINDOW == 360

Builds == {"indicators", "part_000"}

(***************************************************************************)
(* Arithmetic                                                              *)
(***************************************************************************)
Max(x, y) == IF x >= y THEN x ELSE y
Min(x, y) == IF x <= y THEN x ELSE y
Abs(x) == IF x < 0 THEN -x ELSE x

\* n / d.  A division by zero gives den = 0: +Infinity (num > 0), -Infinity
\* (num < 0) or NaN (num = 0), as the division of two numbers does
Rat(n, d) == IF d < 0 THEN [num |-> -n, den |-> -d] ELSE [num |-> n, den |-> d]
IsNaN(p) == p.den = 0 /\ p.num = 0
\* p < q, one of them finite: false when either is NaN
RatLess(p, q) == p.num * q.den < q.num * p.den
RatAbs(p) == [num |-> Abs(p.num), den |-> p.den]

\* Math.round: the nearest integer, halves towards +infinity
MathRound(p) == (2 * p.num + p.den) \div (2 * p.den)

\* one hundredth, in confidence units
Hundredth == 5 * STABILITY_BUFFER
ConfScale == 100 * Hundredth

\* Math.round(confidence * 100) / 100, as confidence units
RoundConfidence(c) == MathRound([num |-> 100 * c.num, den |-> c.den]) * Hundredth

(***************************************************************************)
(* Floating point.  A JavaScript number is a binary floating-point value   *)
(* m * 2^e whose significand m has Precision bits (53 in IEEE 754 double,  *)
(* fewer here so that every intermediate fits TLC's integers).  Each       *)
(* operation returns the representable value nearest to the exact result,  *)
(* ties to the even significand.  The exponent Infinite marks +Infinity    *)
(* (m = 1), -Infinity (m = -1) and NaN (m = 0).  Operands are bound to     *)
(* their values before they are used (v \in {x}).                          *)
(***************************************************************************)
Precision == 12

Infinite == 1000000

RECURSIVE Pow2(_)
Pow2(k) == IF k <= 0 THEN 1 ELSE 2 * Pow2(k - 1)

\* the number of binary digits of n >= 0
RECURSIVE BitLength(_)
BitLength(n) == IF n = 0 THEN 0 ELSE 1 + BitLength(n \div 2)

\* the integer nearest to n / d (n >= 0, d > 0), a tie going to the even one
RoundHalfEven(n, d) ==
    LET q == n \div d
        r == n % d
    IN  IF 2 * r < d \/ (2 * r = d /\ q % 2 = 0) THEN q ELSE q + 1

Zero == [m |-> 0, e |-> 0]
NotANumber == [m |-> 0, e |-> Infinite]
Infinity(sign) == [m |-> sign, e |-> Infinite]
IsFinite(x) == x.e # Infinite
Sign(n) == IF n < 0 THEN -1 ELSE 1

\* the number nearest to (n / d) * 2^e, for integers n and d > 0
Nearest(n, d, e) ==
    IF n = 0 THEN Zero
    ELSE LET an == Abs(n)
             t0 == Precision - BitLength(an) + BitLength(d)
             Numer(t) == IF t >= 0 THEN an * Pow2(t) ELSE an
             Denom(t) == IF t >= 0 THEN d ELSE d * Pow2(-t)
             t == IF Numer(t0) >= Pow2(Precision) * Denom(t0) THEN t0 - 1 ELSE t0
             m == RoundHalfEven(Numer(t), Denom(t))
         IN  IF m = Pow2(Precision)
             THEN [m |-> Sign(n) * Pow2(Precision - 1), e |-> e - t + 1]
             ELSE [m |-> Sign(n) * m, e |-> e - t]

\* an integer literal, and a rational one
Num(n) == Nearest(n, 1, 0)
NumRat(p) == Nearest(p.num, p.den, 0)

FNeg(x) == [m |-> -x.m, e |-> x.e]

\* x + y
FAdd(x, y) ==
    CHOOSE r \in
        {IF (a.m = 0 /\ ~IsFinite(a)) \/ (b.m = 0 /\ ~IsFinite(b)) THEN NotANumber
         ELSE IF ~IsFinite(a) /\ ~IsFinite(b) THEN (IF a.m = b.m THEN a ELSE NotANumber)
         ELSE IF ~IsFinite(a) THEN a
         ELSE IF ~IsFinite(b) THEN b
         ELSE IF a.m = 0 THEN b
         ELSE IF b.m = 0 THEN a
         ELSE LET hi == IF a.e >= b.e THEN a ELSE b
                  lo == IF a.e >= b.e THEN b ELSE a
                  gap == hi.e - lo.e
              IN  IF gap > Precision + 2 THEN hi
                  ELSE Nearest(hi.m * Pow2(gap) + lo.m, 1, lo.e) :
         a \in {x}, b \in {y}} : TRUE

\* x - y
FSub(x, y) == FAdd(x, FNeg(y))

\* x * y
FMul(x, y) ==
    CHOOSE r \in
        {IF ~IsFinite(a) \/ ~IsFinite(b)
         THEN (IF a.m = 0 \/ b.m = 0 THEN NotANumber ELSE Infinity(Sign(a.m) * Sign(b.m)))
         ELSE Nearest(a.m * b.m, 1, a.e + b.e) :
         a \in {x}, b \in {y}} : TRUE

\* x / y
FDiv(x, y) ==
    CHOOSE r \in
        {IF ~IsFinite(a) \/ ~IsFinite(b)
         THEN (IF ~IsFinite(b) /\ IsFinite(a) /\ b.m # 0 THEN Zero
               ELSE IF IsFinite(b) /\ a.m # 0 THEN Infinity(Sign(a.m) * Sign(b.m))
               ELSE NotANumber)
         ELSE IF b.m = 0 THEN (IF a.m = 0 THEN NotANumber ELSE Infinity(Sign(a.m)))
         ELSE Nearest(Sign(b.m) * a.m, Abs(b.m), a.e - b.e) :
         a \in {x}, b \in {y}} : TRUE

\* Math.abs(x) > Math.abs(y)
FAbsGreater(x, y) ==
    IF (x.m = 0 /\ ~IsFinite(x)) \/ (y.m = 0 /\ ~IsFinite(y)) THEN FALSE
    ELSE IF ~IsFinite(x) THEN IsFinite(y)
    ELSE IF ~IsFinite(y) \/ x.m = 0 THEN FALSE
    ELSE y.m = 0 \/ x.e > y.e \/ (x.e = y.e /\ Abs(x.m) > Abs(y.m))

\* the largest s with s * s <= n, between lo and hi
RECURSIVE IntSqrt(_, _, _)
IntSqrt(n, lo, hi) ==
    IF lo >= hi THEN lo
    ELSE LET mid == (lo + hi + 1) \div 2
         IN  IF mid * mid <= n THEN IntSqrt(n, mid, hi) ELSE IntSqrt(n, lo, mid - 1)

\* Math.sqrt(x), x > 0 and finite: the nearest number to the square root
FSqrt(x) ==
    CHOOSE r \in
        {LET shift == IF (a.e - Precision) % 2 = 0 THEN Precision ELSE Precision + 1
             n == a.m * Pow2(shift)
             s == IntSqrt(n, 0, Pow2(Precision + 1))
             root == IF n > s * s + s THEN s + 1 ELSE s
         IN  Nearest(root, 1, (a.e - shift) \div 2) :
         a \in {x}} : TRUE

\* Math.exp(x) for 0 <= x < 1: the series 1 + x + x^2/2 + ... + x^8/8!,
\* summed from its last term (k counts down from 8)
RECURSIVE ExpSeries(_, _, _)
ExpSeries(x, k, tail) ==
    IF k = 0 THEN tail
    ELSE CHOOSE r \in
             {ExpSeries(x, k - 1, t) :
                  t \in {FAdd(Num(1), FDiv(FMul(x, tail), Num(k)))}} : TRUE

Exp(x) == ExpSeries(x, 8, Num(1))

(***************************************************************************)
(* The fitter: weightedQuadraticFit ("indicators"), quadraticFit           *)
(* ("part_000") and solveLinearSystem.  A series y is a sequence of        *)
(* numbers; index k of the model is index k - 1 of the code.               *)
(***************************************************************************)
\* calculateWeights: exp(alpha * i / length) or 1.0; "part_000" has no weights
RECURSIVE calculateWeights(_, _, _, _)
calculateWeights(b, length, i, acc) ==
    IF i = length THEN acc
    ELSE CHOOSE r \in
             {calculateWeights(b, length, i + 1, Append(acc, w)) :
                  w \in {IF b = "indicators" /\ config.WEIGHTED_POLYNOMIAL
                         THEN Exp(FDiv(FMul(NumRat(config.ALPHA), Num(i)), Num(length)))
                         ELSE Num(1)}} : TRUE

\* W = weights.map(w => Math.sqrt(w))
RECURSIVE SqrtWeights(_, _)
SqrtWeights(weights, acc) ==
    IF Len(acc) = Len(weights) THEN acc
    ELSE CHOOSE r \in
             {SqrtWeights(weights, Append(acc, w)) :
                  w \in {FSqrt(weights[Len(acc) + 1])}} : TRUE

\* X[k][c] = [W * x * x, W * x, W][c], with x = k - 1
DesignEntry(W, k, c) ==
    IF c = 1 THEN FMul(FMul(W[k], Num(k - 1)), Num(k - 1))
    ELSE IF c = 2 THEN FMul(W[k], Num(k - 1))
    ELSE W[k]

\* row.reduce((sum, val, k) => sum + val * B[k][j], 0) for row r of X'
RECURSIVE NormalEntry(_, _, _, _, _)
NormalEntry(W, r, c, k, sum) ==
    IF k > Len(W) THEN sum
    ELSE CHOOSE res \in
             {NormalEntry(W, r, c, k + 1, t) :
                  t \in {FAdd(sum, FMul(DesignEntry(W, k, r), DesignEntry(W, k, c)))}} : TRUE

\* row.reduce((sum, val, i) => sum + val * v[i], 0) for row r of X', v = W * y
RECURSIVE NormalRhs(_, _, _, _, _)
NormalRhs(W, y, r, k, sum) ==
    IF k > Len(W) THEN sum
    ELSE CHOOSE res \in
             {NormalRhs(W, y, r, k + 1, t) :
                  t \in {FAdd(sum, FMul(DesignEntry(W, k, r), FMul(W[k], Num(y[k]))))}} : TRUE

\* M = A.map((row, i) => [...row, b[i]]) for A = X'X and b = X'Y
AugmentedRow(W, y, r) ==
    <<NormalEntry(W, r, 1, 1, Zero), NormalEntry(W, r, 2, 1, Zero),
      NormalEntry(W, r, 3, 1, Zero), NormalRhs(W, y, r, 1, Zero)>>

Augmented(W, y) == <<AugmentedRow(W, y, 1), AugmentedRow(W, y, 2), AugmentedRow(W, y, 3)>>

\* the row of the largest |M[k][i]|, k >= i, the first one on a tie
RECURSIVE MaxRow(_, _, _, _)
MaxRow(M, i, k, maxRow) ==
    IF k > 3 THEN maxRow
    ELSE MaxRow(M, i, k + 1, IF FAbsGreater(M[k][i], M[maxRow][i]) THEN k ELSE maxRow)

\* [M[i], M[maxRow]] = [M[maxRow], M[i]]
SwapRows(M, i, r) == [M EXCEPT ![i] = M[r], ![r] = M[i]]

\* for (j = i; j <= m; j++) M[k][j] -= factor * M[i][j]
EliminateRow(rowK, rowI, i) ==
    CHOOSE r \in
        {<<IF 1 < i THEN rowK[1] ELSE FSub(rowK[1], FMul(factor, rowI[1])),
           IF 2 < i THEN rowK[2] ELSE FSub(rowK[2], FMul(factor, rowI[2])),
           IF 3 < i THEN rowK[3] ELSE FSub(rowK[3], FMul(factor, rowI[3])),
           FSub(rowK[4], FMul(factor, rowI[4]))>> :
         factor \in {FDiv(rowK[i], rowI[i])}} : TRUE

\* Gaussian elimination with partial pivoting, from column i on
RECURSIVE Eliminate(_, _)
Eliminate(M, i) ==
    IF i > 3 THEN M
    ELSE CHOOSE r \in
             {Eliminate(<<IF 1 > i THEN EliminateRow(P[1], P[i], i) ELSE P[1],
                          IF 2 > i THEN EliminateRow(P[2], P[i], i) ELSE P[2],
                          IF 3 > i THEN EliminateRow(P[3], P[i], i) ELSE P[3]>>, i + 1) :
                  P \in {SwapRows(M, i, MaxRow(M, i, i + 1, i))}} : TRUE

\* back substitution from row i upwards; x holds x[i+1..3]
RECURSIVE BackSubstitute(_, _, _)
BackSubstitute(M, i, x) ==
    IF i = 0 THEN x
    ELSE CHOOSE r \in
             {BackSubstitute(
                  <<IF 1 < i THEN [M[1] EXCEPT ![4] = FSub(@, FMul(M[1][i], xi))] ELSE M[1],
                    IF 2 < i THEN [M[2] EXCEPT ![4] = FSub(@, FMul(M[2][i], xi))] ELSE M[2],
                    M[3]>>,
                  i - 1, <<xi>> \o x) :
                  xi \in {FDiv(M[i][4], M[i][i])}} : TRUE

solveLinearSystem(M) ==
    CHOOSE r \in {BackSubstitute(U, 3, <<>>) : U \in {Eliminate(M, 1)}} : TRUE

\* the coefficients <<a, b, c>> fitted to the series y
weightedQuadraticFit(b, y) ==
    CHOOSE r \in
        {solveLinearSystem(M) :
             M \in {Augmented(W, y) :
                      W \in {SqrtWeights(calculateWeights(b, Len(y), 0, <<>>), <<>>)}}} : TRUE

(***************************************************************************)
(* SignalGenerator.config.  "part_000" spreads the constructor's argument  *)
(* over DEFAULT_CONFIG; "indicators" reads process.env, each variable with *)
(* a default text.  `overrides` is what the deployment sets, by field:     *)
(* minVertexAge, maxVertexAge, signalExpiryMinutes, minMagnitudePct,       *)
(* stabilityBufferSize, weightedAlpha, useExponentialWeighting.            *)
(***************************************************************************)
DEFAULT_CONFIG ==
    [MIN_VERTEX_AGE |-> MIN_VERTEX_AGE,
     MAX_VERTEX_AGE |-> MAX_VERTEX_AGE,
     SIGNAL_EXPIRY_MINUTES |-> SIGNAL_EXPIRY_MINUTES,
     MIN_MAGNITUDE |-> MIN_MAGNITUDE,
     STABILITY_BUFFER |-> STABILITY_BUFFER,
     CONFIDENCE_THRESHOLD |-> [num |-> 3, den |-> 5],
     WEIGHTED_ALPHA |-> [num |-> 1, den |-> 2]]

\* the key of DEFAULT_CONFIG a field goes by; useExponentialWeighting has none
ConfigKeys ==
    [minVertexAge |-> "MIN_VERTEX_AGE", maxVertexAge |-> "MAX_VERTEX_AGE",
     signalExpiryMinutes |-> "SIGNAL_EXPIRY_MINUTES", minMagnitudePct |-> "MIN_MAGNITUDE",
     stabilityBufferSize |-> "STABILITY_BUFFER", weightedAlpha |-> "WEIGHTED_ALPHA"]

\* the environment variable a field is read from; minMagnitudePct has none
EnvNames ==
    [minVertexAge |-> "MIN_VERTEX_AGE", maxVertexAge |-> "MAX_VERTEX_AGE",
     signalExpiryMinutes |-> "SIGNAL_EXPIRY_MINUTES",
     stabilityBufferSize |-> "STABILITY_BUFFER", weightedAlpha |-> "WEIGHTED_ALPHA",
     useExponentialWeighting |-> "WEIGHTED_POLYNOMIAL"]

\* a text is the sequence of its characters
DigitValue(ch) == CHOOSE d \in 0..9 : ToString(d) = ch
IsDigit(ch) == \E d \in 0..9 : ToString(d) = ch

RECURSIVE DecimalText(_)
DecimalText(n) ==
    IF n < 10 THEN <<ToString(n)>> ELSE Append(DecimalText(n \div 10), ToString(n % 10))

\* a number with two decimals, as a deployment writes it into the environment
FloatText(p) ==
    LET h == (100 * p.num) \div p.den
    IN  DecimalText(h \div 100) \o <<".", ToString((h % 100) \div 10), ToString(h % 10)>>

\* the leading digits of a text, as a number (most significant first)
RECURSIVE ParseDigits(_, _)
ParseDigits(text, acc) ==
    IF text = <<>> \/ ~IsDigit(Head(text)) THEN [value |-> acc, rest |-> text]
    ELSE ParseDigits(Tail(text), 10 * acc + DigitValue(Head(text)))

RECURSIVE TenTo(_)
TenTo(k) == IF k = 0 THEN 1 ELSE 10 * TenTo(k - 1)

\* parseInt(text): the integer its leading digits spell
ParseInt(text) == ParseDigits(text, 0).value

\* parseFloat(text): digits, optionally a point and more digits
ParseFloat(text) ==
    LET whole == ParseDigits(text, 0)
    IN  IF whole.rest # <<>> /\ Head(whole.rest) = "."
        THEN LET frac == ParseDigits(Tail(whole.rest), 0)
                 places == Len(Tail(whole.rest)) - Len(frac.rest)
             IN  [num |-> whole.value * TenTo(places) + frac.value, den |-> TenTo(places)]
        ELSE [num |-> whole.value, den |-> 1]

\* process.env as the deployment set it
EnvOf(o) ==
    [name \in {EnvNames[f] : f \in DOMAIN o \cap DOMAIN EnvNames} |->
        LET f == CHOOSE g \in DOMAIN o \cap DOMAIN EnvNames : EnvNames[g] = name
        IN  IF f = "weightedAlpha" THEN FloatText(o[f])
            ELSE IF f = "useExponentialWeighting"
            THEN (IF o[f] THEN <<"T", "R", "U", "E">> ELSE <<"F", "A", "L", "S", "E">>)
            ELSE DecimalText(o[f])]

\* process.env.NAME || default
EnvOr(env, name, default) == IF name \in DOMAIN env THEN env[name] ELSE default

\* the constructor's argument: the overrides DEFAULT_CONFIG has a key for
PartialConfig(o) ==
    [key \in {ConfigKeys[f] : f \in DOMAIN o \cap DOMAIN ConfigKeys} |->
        o[CHOOSE f \in DOMAIN o \cap DOMAIN ConfigKeys : ConfigKeys[f] = key]]

\* this.config after construction
Construct(b, o) ==
    IF b = "part_000"
    THEN PartialConfig(o) @@ DEFAULT_CONFIG
    ELSE LET env == EnvOf(o)
         IN  [MIN_VERTEX_AGE |-> ParseInt(EnvOr(env, "MIN_VERTEX_AGE", <<"2", "0">>)),
              MAX_VERTEX_AGE |-> ParseInt(EnvOr(env, "MAX_VERTEX_AGE", <<"1", "2", "0">>)),
              SIGNAL_EXPIRY_MINUTES |->
                  ParseInt(EnvOr(env, "SIGNAL_EXPIRY_MINUTES", <<"1", "5">>)),
              STABILITY_BUFFER |-> ParseInt(EnvOr(env, "STABILITY_BUFFER", <<"3">>)),
              ALPHA |-> ParseFloat(EnvOr(env, "WEIGHTED_ALPHA", <<"0", ".", "5">>)),
              WEIGHTED_POLYNOMIAL |->
                  EnvOr(env, "WEIGHTED_POLYNOMIAL", <<>>) = <<"T", "R", "U", "E">>]

NoOverrides == [f \in {} |-> 0]

\* the magnitude a change must exceed: the literal 1.5 in "indicators"
MagnitudeThreshold(b) == IF b = "indicators" THEN MIN_MAGNITUDE ELSE config.MIN_MAGNITUDE

(***************************************************************************)
(* Price windows.  A window is what generateSignal reads of its `prices`   *)
(* argument: its length n, the coefficients a and b the quadratic fit      *)
(* returns for its last 360 samples, the price at the last sample and the  *)
(* price at every index the vertex can fall on (flatPrice up to knee,      *)
(* rising or falling linearly to endPrice after it).                       *)
(***************************************************************************)
PriceAt(w, i) ==
    IF i <= w.knee THEN w.flatPrice
    ELSE w.flatPrice + ((w.endPrice - w.flatPrice) * (i - w.knee)) \div (WINDOW - 1 - w.knee)

\* -b / (2 * a)
VertexX(w) == Rat(-w.b, 2 * w.a)

\* NaN as the value of vertexIdx and of minutesSinceVertex, which are
\* otherwise never negative
NaN == -1

\* Math.max(0, Math.min(359, Math.round(vertexX)))
VertexIdx(w) ==
    LET vertexX == VertexX(w)
    IN  IF IsNaN(vertexX) THEN NaN
        ELSE IF vertexX.den = 0 THEN (IF vertexX.num > 0 THEN WINDOW - 1 ELSE 0)
        ELSE Max(0, Min(WINDOW - 1, MathRound(vertexX)))

\* minutesSinceVertex
MinutesSinceVertex(b, w) ==
    IF VertexIdx(w) = NaN THEN NaN
    ELSE IF b = "indicators" THEN WINDOW - VertexIdx(w) ELSE WINDOW - 1 - VertexIdx(w)

\* ((end - vertexPrice) / vertexPrice) * 100; y[NaN] is undefined
PctChangeVertexToRecent(w) ==
    IF VertexIdx(w) = NaN THEN [num |-> 0, den |-> 0]
    ELSE LET vertexPrice == PriceAt(w, VertexIdx(w))
             end == PriceAt(w, WINDOW - 1)
         IN  Rat(100 * (end - vertexPrice), vertexPrice)

IsUShaped(w) == w.a > 0
IsInvertedUShaped(b, w) == IF b = "indicators" THEN ~IsUShaped(w) ELSE w.a < 0

\* fault injection: no cap at 0.95
SignalConfidence_Uncapped(pct, divisor) ==
    [num |-> divisor * pct.den + 2 * Abs(pct.num), den |-> 2 * divisor * pct.den]

\* Math.min(0.95, 0.5 + Math.abs(pct) / divisor)
SignalConfidence(pct, divisor) ==
    LET raw == [num |-> divisor * pct.den + 2 * Abs(pct.num), den |-> 2 * divisor * pct.den]
        cap == [num |-> 95, den |-> 100]
    IN  IF RatLess(cap, raw) THEN cap ELSE raw

ExceedsMagnitude(b, pct) == RatLess(MagnitudeThreshold(b), pct)
BelowMagnitude(b, pct) ==
    RatLess(pct, [num |-> -MagnitudeThreshold(b).num, den |-> MagnitudeThreshold(b).den])

\* fault injection: the thresholds 8 and 5 taken inclusively
BuyStrength_Inclusive(pct) ==
    IF ~RatLess(pct, [num |-> 8, den |-> 1]) THEN "STRONG"
    ELSE IF ~RatLess(pct, [num |-> 5, den |-> 1]) THEN "MODERATE" ELSE "WEAK"

BuyStrength(pct) ==
    IF RatLess([num |-> 8, den |-> 1], pct) THEN "STRONG"
    ELSE IF RatLess([num |-> 5, den |-> 1], pct) THEN "MODERATE" ELSE "WEAK"
SellStrength(pct) ==
    IF RatLess(pct, [num |-> -8, den |-> 1]) THEN "STRONG"
    ELSE IF RatLess(pct, [num |-> -5, den |-> 1]) THEN "MODERATE" ELSE "WEAK"

\* pct.toFixed(2) with the sign formatPercentage puts before it
FormatPercentage(pct) ==
    IF IsNaN(pct) THEN <<"NaN", "%">>
    ELSE IF pct.den = 0 THEN <<(IF pct.num >= 0 THEN "+" ELSE "-"), "Infinity", "%">>
    ELSE LET h == MathRound([num |-> 100 * Abs(pct.num), den |-> pct.den])
             frac == h % 100
         IN  <<(IF pct.num >= 0 THEN "+" ELSE "-"), ToString(h \div 100), ".",
               (IF frac < 10 THEN "0" ELSE "") \o ToString(frac), "%">>

\* `${minutesSinceVertex}`
FormatMinutes(minutes) == IF minutes = NaN THEN "NaN" ELSE ToString(minutes)

\* minutesSinceVertex < MIN_VERTEX_AGE
TooRecent(minutesSinceVertex) ==
    minutesSinceVertex # NaN /\ minutesSinceVertex < config.MIN_VERTEX_AGE

\* fault injection: the aging cap applied to SELL as well
TooAgedForBuy_AnyDirection(direction, minutesSinceVertex) ==
    direction # "NONE" /\ minutesSinceVertex > config.MAX_VERTEX_AGE

\* fault injection: the aging cap applied to SELL instead of BUY
TooAgedForBuy_Sell(direction, minutesSinceVertex) ==
    direction = "SELL" /\ minutesSinceVertex > config.MAX_VERTEX_AGE

TooAgedForBuy(direction, minutesSinceVertex) ==
    direction = "BUY" /\ minutesSinceVertex > config.MAX_VERTEX_AGE

(***************************************************************************)
(* The classifier: the vertex and decision table of generateSignal         *)
(* ("indicators") and of analyzeQuadraticPattern ("part_000").  The result *)
(* says which return statement was taken (exit) and carries the fields of  *)
(* that return, the confidence still a real number.                        *)
(***************************************************************************)
analyzeQuadraticPattern(b, w) ==
    LET age == MinutesSinceVertex(b, w)
        pct == PctChangeVertexToRecent(w)
        isBuy == IsUShaped(w) /\ ExceedsMagnitude(b, pct)
        isSell == ~isBuy /\ IsInvertedUShaped(b, w) /\ BelowMagnitude(b, pct)
        direction == IF isBuy THEN "BUY" ELSE IF isSell THEN "SELL" ELSE "NONE"
        confidence == IF isBuy THEN SignalConfidence(pct, 15)
                      ELSE IF isSell THEN SignalConfidence(pct, 20)
                      ELSE [num |-> 0, den |-> 1]
        trendStrength == IF isBuy THEN BuyStrength(pct)
                         ELSE IF isSell THEN SellStrength(pct) ELSE "WEAK"
        post == <<FormatMinutes(age), "min post-vertex, ">> \o FormatPercentage(pct) \o <<")">>
        reason == IF isBuy THEN <<"U-shaped recovery confirmed (">> \o post
                  ELSE IF isSell THEN <<"inverted-U-shaped decline confirmed (">> \o post
                  ELSE <<(IF IsUShaped(w) THEN "U-shaped" ELSE "inverted-U-shaped"),
                         " pattern present but insufficient magnitude (">> \o post
    IN  IF TooRecent(age)
        THEN [exit |-> "tooRecent", direction |-> "NONE",
              confidence |-> [num |-> 1, den |-> 10],
              reason |-> <<"Vertex too recent (", FormatMinutes(age), "min < ",
                           ToString(config.MIN_VERTEX_AGE), "min)">>,
              metadata |-> [k \in {} |-> 0]]
        ELSE IF TooAgedForBuy(direction, age)
        THEN [exit |-> "tooAged", direction |-> "NONE",
              confidence |-> [num |-> 0, den |-> 1],
              reason |-> <<"Pattern too aged for BUY (>", ToString(config.MAX_VERTEX_AGE),
                           "min)">>,
              metadata |-> [k \in {} |-> 0]]
        ELSE [exit |-> "pattern", direction |-> direction,
              confidence |-> confidence,
              reason |-> reason,
              metadata |-> [vertexAge |-> age,
                            trendStrength |-> trendStrength,
                            pattern |-> IF IsUShaped(w) THEN "U_SHAPED" ELSE "INVERTED_U",
                            magnitude |-> RatAbs(pct)]]

(***************************************************************************)
(* Signal records                                                          *)
(***************************************************************************)
\* toLocaleString(..., second: '2-digit'): the timestamp to the second
toLocalTimezone(timestamp) == timestamp \div 1000

createExpiryTimestamp(baseTime) ==
    toLocalTimezone(baseTime + config.SIGNAL_EXPIRY_MINUTES * 60 * 1000)

\* { direction, confidence: round2, firstDetected, lastEvaluated, expiresAt,
\*   reason, ...metadata }
createSignal(direction, confidence, reason, timestamp, metadata) ==
    metadata @@ [direction |-> direction,
                 confidence |-> RoundConfidence(confidence),
                 firstDetected |-> toLocalTimezone(timestamp),
                 lastEvaluated |-> toLocalTimezone(timestamp),
                 expiresAt |-> createExpiryTimestamp(timestamp),
                 reason |-> reason]

NoMetadata == [k \in {} |-> 0]

\* fault injection: the caller's 60-sample threshold instead of 360
InsufficientData_Caller(w) == w.n < 60
InsufficientData(w) == w.n < WINDOW

InsufficientReason(w) == <<"Insufficient data (", ToString(w.n), "/", ToString(WINDOW), " points)">>

(***************************************************************************)
(* StabilityFilter                                                         *)
(***************************************************************************)
HistoryOf(hist, symbol) == IF symbol \in DOMAIN hist THEN hist[symbol] ELSE <<>>

\* fault injection: the newest entries are dropped instead of the oldest
TruncateHistory_KeepOldest(history) ==
    IF Len(history) > config.STABILITY_BUFFER * 2
    THEN SubSeq(history, 1, config.STABILITY_BUFFER * 2)
    ELSE history

\* history.splice(0, history.length - STABILITY_BUFFER * 2) when too long
TruncateHistory(history) ==
    IF Len(history) > config.STABILITY_BUFFER * 2
    THEN SubSeq(history, Len(history) - config.STABILITY_BUFFER * 2 + 1, Len(history))
    ELSE history

\* history.slice(-STABILITY_BUFFER)
RecentSignals(history) ==
    SubSeq(history, Max(1, Len(history) - config.STABILITY_BUFFER + 1), Len(history))

AllSameDirection(recentSignals, direction) ==
    \A i \in 1..Len(recentSignals) : recentSignals[i].direction = direction

RECURSIVE SumConfidence(_)
SumConfidence(signals) ==
    IF signals = <<>> THEN 0
    ELSE signals[1].confidence + SumConfidence(Tail(signals))

\* fault injection: the newest confidence instead of the mean
AvgConfidence_Last(recentSignals) == recentSignals[Len(recentSignals)].confidence

\* recentSignals.reduce((sum, s) => sum + s.confidence, 0) / recentSignals.length
AvgConfidence(recentSignals) == SumConfidence(recentSignals) \div Len(recentSignals)

\* fault injection: no reduction
ReducedConfidence_None(confidence) == confidence

\* newSignal.confidence * 0.8
ReducedConfidence(confidence) == (confidence * 4) \div 5

IsConfirmed(history, newSignal) ==
    /\ Len(history) >= config.STABILITY_BUFFER
    /\ AllSameDirection(RecentSignals(history), newSignal.direction)
    /\ newSignal.direction # "NONE"

ConfirmedSuffix == <<" (", ToString(config.STABILITY_BUFFER), "x confirmed)">>
AwaitingSuffix == <<" (awaiting confirmation)">>

\* the record applyStabilityFilter returns, given the history after the push
FilteredSignal(history, newSignal) ==
    IF IsConfirmed(history, newSignal)
    THEN [confidence |-> AvgConfidence(RecentSignals(history)),
          reason |-> newSignal.reason \o ConfirmedSuffix,
          stable |-> TRUE] @@ newSignal
    ELSE [confidence |-> ReducedConfidence(newSignal.confidence),
          reason |-> newSignal.reason \o AwaitingSuffix,
          stable |-> FALSE] @@ newSignal

\* the returned record, the history map after the call, and the record pushed
applyStabilityFilter(hist, symbol, newSignal) ==
    LET history == TruncateHistory(Append(HistoryOf(hist, symbol), newSignal))
    IN  [ret |-> FilteredSignal(history, newSignal),
         history |-> [s \in DOMAIN hist \cup {symbol} |->
                        IF s = symbol THEN history ELSE hist[s]],
         pushed |-> <<newSignal>>]

(***************************************************************************)
(* SignalGenerator.generateSignal                                          *)
(***************************************************************************)
\* "indicators" returns the too-recent and the too-aged NONE straight from
\* createSignal; "part_000" hands every PatternResult to applyStabilityFilter
RoutedThroughFilter(b, pattern) == b = "part_000" \/ pattern.exit = "pattern"

\* the fit or the classification of this window raises an exception
Throws(w) == "fault" \in DOMAIN w

\* "part_000" wraps the analysis and the filter in try/catch; "indicators"
\* has no handler in generateSignal
CatchesFaults(b) == b = "part_000"

\* `Analysis error: ${error.message}`
AnalysisError(w) == <<"Analysis error: ", w.fault>>

\* the exception leaving generateSignal, in place of a returned record
Propagated(w) == [thrown |-> w.fault]

generateSignal(b, hist, symbol, w, now) ==
    IF InsufficientData(w)
    THEN [ret |-> createSignal("NONE", [num |-> 0, den |-> 1], InsufficientReason(w),
                               now, NoMetadata),
          history |-> hist, pushed |-> <<>>]
    ELSE IF Throws(w)
    THEN [ret |-> IF CatchesFaults(b)
                  THEN createSignal("NONE", [num |-> 0, den |-> 1], AnalysisError(w),
                                    now, NoMetadata)
                  ELSE Propagated(w),
          history |-> hist, pushed |-> <<>>]
    ELSE LET p == analyzeQuadraticPattern(b, w)
         IN  IF RoutedThroughFilter(b, p)
             THEN applyStabilityFilter(hist, symbol,
                      createSignal(p.direction, p.confidence, p.reason, now, p.metadata))
             ELSE [ret |-> createSignal(p.direction, p.confidence, p.reason, now, NoMetadata),
                   history |-> hist, pushed |-> <<>>]

(***************************************************************************)
(* Inputs                                                                  *)
(***************************************************************************)
Symbols == {"SOL", "BONK"}

\* evaluations in one run of Spec and of SpecDeep
MaxEvals == 4
MaxDeepEvals == 7

\* the fit of a window whose parabola turns at index i (a = 1 or a = -1)
Window(n, a, i, knee, flatPrice, endPrice) ==
    [n |-> n, a |-> a, b |-> -2 * a * i, knee |-> knee,
     flatPrice |-> flatPrice, endPrice |-> endPrice]

\* +6% since a trough 100 minutes back
BuyModerateWindow == Window(WINDOW, 1, 259, 259, 1000, 1060)
\* +2% since a trough 100 minutes back, out of a longer series
BuyWeakWindow == Window(WINDOW + 40, 1, 259, 259, 1000, 1020)
\* -10% since a peak 150 minutes back
SellWindow == Window(WINDOW, -1, 209, 209, 1000, 900)
\* +10% since a trough 150 minutes back
AgedBuyWindow == Window(WINDOW, 1, 209, 209, 1000, 1100)
\* +6% since a trough 9 minutes back
RecentWindow == Window(WINDOW, 1, 350, 350, 1000, 1060)
\* +1% since a trough 100 minutes back
SmallWindow == Window(WINDOW, 1, 259, 259, 1000, 1010)
\* one sample short of an evaluation
ShortWindow == Window(WINDOW - 1, 1, 259, 259, 1000, 1060)

\* (AgedBuyWindow is evaluated as one window of the grid below)
Windows == {BuyModerateWindow, BuyWeakWindow, SellWindow, RecentWindow, SmallWindow,
            ShortWindow}

DeepWindows == {BuyModerateWindow, RecentWindow}

(***************************************************************************)
(* State machine                                                           *)
(*   signalHistory : the Map symbol -> TrendSignal[] (its keys are DOMAIN) *)
(*   clock         : Date.now(), milliseconds                              *)
(*   call, result  : the last call made (its arguments, the history map    *)
(*                   before it, the record it pushed, its log line) and    *)
(*                   the record it returned                                *)
(*   submitted     : per symbol, every record pushed by the filter (ghost) *)
(*   classified    : per symbol, the direction the classifier gave each    *)
(*                   evaluation of at least 360 samples (ghost)            *)
(*   callers       : the update cycles in flight, each with its position   *)
(*                   in updateSingleToken and its local variables          *)
(*   sinceClear    : per symbol, the classified evaluations made since its *)
(*                   history was last cleared (ghost)                      *)
(*   tokens        : TokenManager.tokens, the in-memory token list         *)
(*   dbTokens      : the rows of the database table tokens, in table order *)
(*   priceHistories: IndicatorService.priceHistories (Map symbol -> prices)*)
(*   app           : IndicatorUpdaterApp: the classes it is built from,    *)
(*                   isRunning, its interval timers, the update cycles in  *)
(*                   flight and started so far, whether start() awaits its *)
(*                   initial cycle, whether shutdown() awaits close(), and *)
(*                   whether the process has exited                        *)
(***************************************************************************)
NoCall == [op |-> "none"]

\* what the console.log line of an evaluation reports of the analysis
AnalysisLog(b, w) ==
    IF InsufficientData(w) \/ Throws(w) THEN [k \in {} |-> 0]
    ELSE [vertexIdx |-> VertexIdx(w),
          minutesSinceVertex |-> MinutesSinceVertex(b, w),
          shape |-> IF IsUShaped(w) THEN "U" ELSE "inverted-U"]
EmptyHistory == [s \in {} |-> <<>>]

\* IndicatorUpdaterApp after its constructor, built from one of the
\* TokenManager classes and one of the IndicatorService classes
App(tm, service) ==
    [tokenManager |-> tm, indicatorService |-> service,
     isRunning |-> FALSE, intervals |-> 0, running |-> 0, started |-> 0,
     awaiting |-> FALSE, stopping |-> FALSE, exited |-> FALSE]

AppConstructed == App("memory", "DatabaseService.ts:192")

\* the services after construction: no token loaded, no price recorded
ServicesConstructed ==
    /\ tokens = <<>>
    /\ dbTokens = <<>>
    /\ priceHistories = [s \in {} |-> <<>>]
    /\ app = AppConstructed

GeneratorConstructed(c) ==
    /\ build \in Builds
    /\ clock = 0
    /\ evals = 0
    /\ signalHistory = EmptyHistory
    /\ submitted = [s \in Symbols |-> <<>>]
    /\ classified = [s \in Symbols |-> <<>>]
    /\ call = c
    /\ result = <<>>
    /\ callers = <<>>
    /\ overrides = NoOverrides
    /\ config = Construct(build, overrides)
    /\ sinceClear = [s \in Symbols |-> 0]

InitState(c) == GeneratorConstructed(c) /\ ServicesConstructed

Init == InitState(NoCall)

\* the timestamp the records are made from.  "part_000" takes it as the
\* argument lastUpdated, Date.now() by default; "indicators" has no such
\* parameter and reads Date.now() whatever the caller passes
EvaluationTime(b, lastUpdated, dateNow) ==
    IF b = "part_000" /\ lastUpdated # <<>> THEN lastUpdated[1] ELSE dateNow

\* a call generateSignal(symbol, prices) or generateSignal(symbol, prices, t):
\* lastUpdated is <<>> or <<t>>
Evaluate(symbol, w, lastUpdated) ==
    LET out == generateSignal(build, signalHistory, symbol, w,
                              EvaluationTime(build, lastUpdated, clock))
    IN  /\ signalHistory' = out.history
        /\ result' = <<out.ret>>
        /\ submitted' = [submitted EXCEPT ![symbol] = @ \o out.pushed]
        /\ classified' = IF InsufficientData(w) \/ Throws(w) THEN classified
                         ELSE [classified EXCEPT ![symbol] =
                                 Append(@, analyzeQuadraticPattern(build, w).direction)]
        /\ call' = [op |-> "generateSignal", symbol |-> symbol, window |-> w,
                    now |-> clock, lastUpdated |-> lastUpdated, pre |-> signalHistory,
                    pushed |-> out.pushed, log |-> AnalysisLog(build, w)]
        /\ sinceClear' = IF InsufficientData(w) \/ Throws(w) THEN sinceClear
                         ELSE [sinceClear EXCEPT ![symbol] = @ + 1]
        /\ clock' = clock + 60 * 1000
        /\ evals' = evals + 1
        /\ UNCHANGED <<build, callers, config, overrides, serviceVars>>

\* the call the service makes: generateSignal(token.symbol, prices)
GenerateSignal(symbol, w) == Evaluate(symbol, w, <<>>)

Next ==
    \E symbol \in Symbols, w \in Windows : evals < MaxEvals /\ GenerateSignal(symbol, w)

Spec == Init /\ [][Next]_vars

\* long runs over fewer windows: the history overflows
NextDeep ==
    \E symbol \in Symbols, w \in DeepWindows :
        evals < MaxDeepEvals /\ GenerateSignal(symbol, w)

SpecDeep == Init /\ [][NextDeep]_vars

(***************************************************************************)
(* One evaluation of one window out of a grid: the classifier as a         *)
(* function of the fit and of the prices.                                  *)
(***************************************************************************)
\* vertex at 400 (clamped), 359, 350, 340, 339, 240, 239, 238, 209, 200,
\* 180.5, 180, 0 for a = 1, and their mirror images for a = -1
GridB == LET neg == {-800, -718, -700, -680, -678, -480, -478, -476, -418, -400,
                     -361, -360, 0}
         IN  neg \cup {-b : b \in neg}

\* <<price up to the knee, last price>>: -10% .. +10% around the thresholds
GridPrices == {<<1000, e>> : e \in {900, 919, 920, 949, 950, 985, 1000, 1015, 1016,
                                    1050, 1051, 1060, 1080, 1081, 1100}}
              \cup {<<200, 197>>, <<200, 203>>, <<200, 204>>}

GridKnees == {199, 350}

\* y = (i - 180)^2 + 5 over 360 points: its exact fit is (1, -360, 32405); the
\* two samples an evaluation reads are y[180] = 5 and y[359] = 32046
ParabolaWindow ==
    [n |-> WINDOW, a |-> 1, b |-> -360, knee |-> 180, flatPrice |-> 5, endPrice |-> 32046]

\* 1.000 up to index 199, then rising linearly to 1.060 at index 359, with
\* the fitted vertex at index 200
HockeyStickWindow == Window(WINDOW, 1, 200, 199, 1000, 1060)

GridWindows ==
    {[n |-> WINDOW, a |-> a, b |-> b, knee |-> k, flatPrice |-> p[1], endPrice |-> p[2]] :
        a \in {-1, 1}, b \in GridB, k \in GridKnees, p \in GridPrices}
    \cup {ParabolaWindow, HockeyStickWindow, AgedBuyWindow, SellWindow}
    \cup {Window(n, 1, 259, 259, 1000, 1060) : n \in {0, 100, WINDOW - 1, WINDOW + 40}}

InitClassify == \E w \in GridWindows : InitState([op |-> "pending", window |-> w])

NextClassify ==
    \E symbol \in Symbols : call.op = "pending" /\ GenerateSignal(symbol, call.window)

SpecClassify == InitClassify /\ [][NextClassify]_vars

(***************************************************************************)
(* Evaluations of which some raise an exception inside the analysis.       *)
(***************************************************************************)
MaxFaultEvals == 3

\* 360 samples whose analysis throws an Error with this message
FaultWindow(message) == [n |-> WINDOW, fault |-> message]

FaultWindows == {FaultWindow("Cannot mix BigInt and other types"),
                 FaultWindow("Cannot convert object to primitive value")}

NextFault ==
    \E symbol \in Symbols, w \in FaultWindows \cup {BuyModerateWindow} :
        evals < MaxFaultEvals /\ GenerateSignal(symbol, w)

SpecFault == Init /\ [][NextFault]_vars

(***************************************************************************)
(* One evaluation of one degenerate window: a series without curvature, or *)
(* one whose price at the vertex is zero.                                  *)
(***************************************************************************)
\* the scale of b against a rounding residue in a
Residue == 1000000

\* y_i = k * i + m over 360 points.  Its exact fit is (0, k, m); the
\* elimination in floating point leaves a at 0 or at a rounding residue of
\* either sign, many orders of magnitude below b
LineWindow(k, m, a) ==
    [n |-> WINDOW, a |-> a, b |-> k * Residue, knee |-> 0,
     flatPrice |-> m, endPrice |-> m + k * (WINDOW - 1)]

\* a window whose price is 0 up to and at the vertex index i
ZeroVertexWindow(a, i, endPrice) == Window(WINDOW, a, i, i, 0, endPrice)

DegenerateWindows ==
    {LineWindow(k, 1000, a) : k \in -2..2, a \in {-1, 0, 1}}
    \cup {ZeroVertexWindow(a, i, e) : a \in {-1, 1}, i \in {209, 259}, e \in {0, 5, 1000}}

InitDegenerate == \E w \in DegenerateWindows : InitState([op |-> "pending", window |-> w])

SpecDegenerate == InitDegenerate /\ [][NextClassify]_vars

(***************************************************************************)
(* Overlapping update cycles.  The timer of IndicatorUpdaterApp.start      *)
(* starts runUpdateCycle every interval without waiting for the previous   *)
(* cycle, so two cycles can be inside updateSingleToken at once.  A cycle  *)
(* runs without interruption from one await to the next; control passes to *)
(* another cycle only at an await.                                         *)
(***************************************************************************)
Cycles == {1, 2}

\* the tokens every cycle walks through, in order
ActiveTokens == <<"SOL", "BONK">>

\* updateSingleToken, statement by statement; push and decide are the two
\* halves of applyStabilityFilter
Program == <<"fetchPriceData", "savePriceData", "getRecentPrices", "push", "decide",
             "updateToken">>

\* fault injection: an await between the push and the read of the history
Awaits_InsideFilter ==
    {"fetchPriceData", "savePriceData", "getRecentPrices", "push", "updateToken"}

\* the statements that await
Awaits == {"fetchPriceData", "savePriceData", "getRecentPrices", "updateToken"}

\* what getRecentPrices can return: +6% and +1% since a trough
ConcurrentWindows == {BuyModerateWindow, SmallWindow}

\* a cycle entering updateSingleToken for its first token
StartOfCycle ==
    [token |-> 1, step |-> 1, prices |-> <<>>, pricesAt |-> 0, newSignal |-> <<>>,
     atAppend |-> <<>>, read |-> <<>>, signal |-> <<>>]

\* one statement of updateSingleToken run by a cycle; st holds the cycle's
\* locals (me), the history map, the records pushed so far and the time
Step(st, w) ==
    LET me == st.me
        name == Program[me.step]
        symbol == ActiveTokens[me.token]
        moved == IF me.step = Len(Program)
                 THEN [me EXCEPT !.token = @ + 1, !.step = 1]
                 ELSE [me EXCEPT !.step = @ + 1]
    IN  IF name = "getRecentPrices"
        THEN [st EXCEPT !.me = [moved EXCEPT !.prices = <<w>>, !.pricesAt = st.now]]
        ELSE IF name = "push"
        THEN LET p == analyzeQuadraticPattern(build, me.prices[1])
                 newSignal == createSignal(p.direction, p.confidence, p.reason, st.now,
                                           p.metadata)
                 out == applyStabilityFilter(st.hist, symbol, newSignal)
             IN  [st EXCEPT !.me = [moved EXCEPT !.newSignal = <<newSignal>>,
                                                 !.atAppend = out.history[symbol],
                                                 !.read = <<>>,
                                                 !.signal = <<>>],
                            !.hist = out.history,
                            !.sub = [@ EXCEPT ![symbol] = Append(@, newSignal)]]
        ELSE IF name = "decide"
        THEN LET history == HistoryOf(st.hist, symbol)
             IN  [st EXCEPT !.me = [moved EXCEPT
                                      !.read = RecentSignals(history),
                                      !.signal = <<FilteredSignal(history, me.newSignal[1])>>]]
        ELSE [st EXCEPT !.me = moved]

\* run a cycle from where it stands up to and including its next await
\* (s is the state after one statement)
RECURSIVE Run(_, _)
Run(st, w) ==
    CHOOSE r \in {IF Program[st.me.step] \in Awaits THEN s ELSE Run(s, w) :
                    s \in {Step(st, w)}} : TRUE

Resume(c, w) ==
    /\ callers[c].token <= Len(ActiveTokens)
    /\ \E st \in {Run([me |-> callers[c], hist |-> signalHistory, sub |-> submitted,
                        now |-> clock], w)} :
           /\ callers' = [callers EXCEPT ![c] = st.me]
           /\ signalHistory' = st.hist
           /\ submitted' = st.sub
    /\ clock' = clock + 1000
    /\ UNCHANGED <<build, evals, classified, call, result, config, overrides, sinceClear,
                   serviceVars>>

InitConcurrent ==
    /\ build \in Builds
    /\ clock = 0
    /\ evals = 0
    /\ signalHistory = EmptyHistory
    /\ submitted = [s \in Symbols |-> <<>>]
    /\ classified = [s \in Symbols |-> <<>>]
    /\ call = NoCall
    /\ result = <<>>
    /\ callers = [c \in Cycles |-> StartOfCycle]
    /\ overrides = NoOverrides
    /\ config = Construct(build, overrides)
    /\ sinceClear = [s \in Symbols |-> 0]
    /\ ServicesConstructed

NextConcurrent == \E c \in Cycles, w \in ConcurrentWindows : Resume(c, w)

SpecConcurrent == InitConcurrent /\ [][NextConcurrent]_vars

(***************************************************************************)
(* One evaluation by a generator constructed under overrides.              *)
(***************************************************************************)
Fields == {"minVertexAge", "maxVertexAge", "signalExpiryMinutes", "minMagnitudePct",
           "stabilityBufferSize", "weightedAlpha", "useExponentialWeighting"}

\* the value a deployment sets a field to when it overrides it
OverrideValues ==
    [minVertexAge |-> 10, maxVertexAge |-> 90, signalExpiryMinutes |-> 30,
     minMagnitudePct |-> [num |-> 3, den |-> 1], stabilityBufferSize |-> 2,
     weightedAlpha |-> [num |-> 1, den |-> 4], useExponentialWeighting |-> TRUE]

OverrideSets == {[f \in S |-> OverrideValues[f]] : S \in SUBSET Fields}

\* +6% since a trough 15 minutes back
YoungBuyWindow == Window(WINDOW, 1, 344, 344, 1000, 1060)

\* windows that the overridden thresholds classify differently
ConfigWindows == {BuyWeakWindow, BuyModerateWindow, YoungBuyWindow, SellWindow}

InitConfig ==
    /\ build \in Builds
    /\ clock = 0
    /\ evals = 0
    /\ signalHistory = EmptyHistory
    /\ submitted = [s \in Symbols |-> <<>>]
    /\ classified = [s \in Symbols |-> <<>>]
    /\ call \in {[op |-> "pending", window |-> w] : w \in ConfigWindows}
    /\ result = <<>>
    /\ callers = <<>>
    /\ overrides \in OverrideSets
    /\ config = Construct(build, overrides)
    /\ sinceClear = [s \in Symbols |-> 0]
    /\ ServicesConstructed

SpecConfig == InitConfig /\ [][NextClassify]_vars

(***************************************************************************)
(* Evaluations by a caller that passes the time of its last price sample   *)
(* as the evaluation timestamp, or passes none.                            *)
(***************************************************************************)
MaxTimedEvals == 3

\* the lastUpdated argument: absent, or a time in milliseconds
SuppliedTimes == {<<>>, <<500>>, <<45500>>}

TimedWindows == {BuyModerateWindow, RecentWindow, ShortWindow}

NextTimed ==
    \E symbol \in Symbols, w \in TimedWindows, lastUpdated \in SuppliedTimes :
        evals < MaxTimedEvals /\ Evaluate(symbol, w, lastUpdated)

SpecTimed == Init /\ [][NextTimed]_vars

(***************************************************************************)
(* One fit of one short series, under uniform or exponential weighting.    *)
(***************************************************************************)
\* y_i = a * i^2 + b * i + c for i = 0 .. n - 1
QuadraticSeries(a, b, c, n) == [k \in 1..n |-> a * (k - 1) * (k - 1) + b * (k - 1) + c]

FitSeries ==
    {QuadraticSeries(a, b, 100, n) : a \in -2..2, b \in -3..3, n \in {4, 5}}
    \cup {<<100, 102, 101, 105, 104>>, <<100, 97, 99, 96>>}

\* the deployment leaves the weighting at its default or switches it on
WeightingOverrides == {NoOverrides, [useExponentialWeighting |-> TRUE]}

InitFit ==
    /\ build \in Builds
    /\ clock = 0
    /\ evals = 0
    /\ signalHistory = EmptyHistory
    /\ submitted = [s \in Symbols |-> <<>>]
    /\ classified = [s \in Symbols |-> <<>>]
    /\ call \in {[op |-> "fitPending", y |-> y] : y \in FitSeries}
    /\ result = <<>>
    /\ callers = <<>>
    /\ overrides \in WeightingOverrides
    /\ config = Construct(build, overrides)
    /\ sinceClear = [s \in Symbols |-> 0]
    /\ ServicesConstructed

\* const [a, b, c] = this.weightedQuadraticFit(x, y, weights)
Fit ==
    /\ call.op = "fitPending"
    /\ result' = <<weightedQuadraticFit(build, call.y)>>
    /\ call' = [op |-> "fit", y |-> call.y]
    /\ UNCHANGED <<build, clock, evals, signalHistory, submitted, classified, callers,
                   config, overrides, sinceClear, serviceVars>>

SpecFit == InitFit /\ [][Fit]_vars

(***************************************************************************)
(* clearHistory (part_000 only): evaluations interleaved with clears       *)
(***************************************************************************)
\* the argument of clearHistory(symbol?: string): absent, or a string
ClearArguments == {<<>>, <<"SOL">>, <<"BONK">>, <<"">>}

\* if (symbol): false for an absent argument and for the empty string
Truthy(symbol) == symbol # <<>> /\ symbol[1] # ""

\* if (symbol) { this.signalHistory.delete(symbol) } else { this.signalHistory.clear() }
clearHistory(hist, symbol) ==
    IF Truthy(symbol)
    THEN [s \in DOMAIN hist \ {symbol[1]} |-> hist[s]]
    ELSE EmptyHistory

\* one call of clearHistory
ClearHistory(symbol) ==
    /\ build = "part_000"
    /\ signalHistory' = clearHistory(signalHistory, symbol)
    /\ sinceClear' = [s \in Symbols |->
                         IF s \in DOMAIN signalHistory /\ s \notin DOMAIN signalHistory'
                         THEN 0 ELSE sinceClear[s]]
    /\ call' = [op |-> "clearHistory", symbol |-> symbol, pre |-> signalHistory]
    /\ result' = <<>>
    /\ UNCHANGED <<build, clock, evals, submitted, classified, callers, config, overrides,
                   serviceVars>>

MaxClearEvals == 6
ClearWindows == {BuyModerateWindow}

InitClear == Init /\ build = "part_000"

NextClear ==
    \/ \E symbol \in Symbols, w \in ClearWindows :
           evals < MaxClearEvals /\ GenerateSignal(symbol, w)
    \/ \E symbol \in ClearArguments : ClearHistory(symbol)

SpecClear == InitClear /\ [][NextClear]_vars

(***************************************************************************)
(* TokenManager and the tokens table of DatabaseService.                   *)
(* TokenManager.ts holds two TokenManager classes: the first ("memory")    *)
(* keeps the list this.tokens and writes it through to the database, the   *)
(* second ("database") reads and writes the table on every call.           *)
(***************************************************************************)
TokenManagers == {"memory", "database"}

\* TokenConfig: the fields the services read or write
Token(symbol, pair, active) ==
    [symbol |-> symbol, pair |-> pair, active |-> active, signal |-> <<>>]

\* { ...token, ...updates }
Merge(token, updates) ==
    [f \in DOMAIN token |-> IF f \in DOMAIN updates THEN updates[f] ELSE token[f]]

\* what findIndex returns when no element matches
NotFound == -1

\* list.findIndex(token => token.symbol === symbol)
findIndex(list, symbol) ==
    IF \E i \in 1..Len(list) : list[i].symbol = symbol
    THEN CHOOSE i \in 1..Len(list) :
             list[i].symbol = symbol /\ \A j \in 1..(i - 1) : list[j].symbol # symbol
    ELSE NotFound

\* list.filter(t => t.symbol !== symbol)
WithoutSymbol(list, symbol) == SelectSeq(list, LAMBDA t : t.symbol # symbol)

\* list.filter(token => token.active)
ActiveOf(list) == SelectSeq(list, LAMBDA t : t.active)

\* INSERT OR REPLACE INTO tokens: the row of the symbol is replaced by a new row
saveToken(rows, token) == Append(WithoutSymbol(rows, token.symbol), token)

\* DELETE FROM tokens WHERE symbol = ?
deleteToken(rows, symbol) == WithoutSymbol(rows, symbol)

\* getTokens catches a failed query and returns []
getTokens(rows, dbOk) == IF dbOk THEN rows ELSE <<>>

\* getActiveTokens of either TokenManager
getActiveTokens(tm, list, rows, dbOk) ==
    IF tm = "memory" THEN ActiveOf(list) ELSE ActiveOf(getTokens(rows, dbOk))

\* what a TokenManager call leaves behind: the list, the table, the value it
\* returned (<<>> for void) and whether it threw
Outcome(list, rows, returned, threw) ==
    [tokens |-> list, rows |-> rows, returned |-> returned, threw |-> threw]

\* updateToken(symbol, updates); dbOk tells whether the database queries of
\* this call succeed
updateToken(tm, list, rows, symbol, updates, dbOk) ==
    IF tm = "memory"
    THEN LET tokenIndex == findIndex(list, symbol)
         IN  IF tokenIndex = NotFound THEN Outcome(list, rows, <<FALSE>>, FALSE)
             ELSE LET updated == [list EXCEPT ![tokenIndex] = Merge(@, updates)]
                  IN  IF dbOk
                      THEN Outcome(updated, saveToken(rows, updated[tokenIndex]), <<TRUE>>,
                                   FALSE)
                      ELSE Outcome(updated, rows, <<FALSE>>, FALSE)
    ELSE LET found == findIndex(getTokens(rows, dbOk), symbol)
         IN  IF found = NotFound \/ ~dbOk THEN Outcome(list, rows, <<>>, TRUE)
             ELSE Outcome(list, saveToken(rows, Merge(rows[found], updates)), <<>>, FALSE)

\* addToken(token)
addToken(tm, list, rows, token, dbOk) ==
    IF tm = "memory"
    THEN IF findIndex(list, token.symbol) # NotFound
         THEN Outcome(list, rows, <<FALSE>>, FALSE)
         ELSE LET pushed == Append(list, token)
              IN  IF dbOk THEN Outcome(pushed, saveToken(rows, token), <<TRUE>>, FALSE)
                  ELSE Outcome(WithoutSymbol(pushed, token.symbol), rows, <<FALSE>>, FALSE)
    ELSE IF dbOk THEN Outcome(list, saveToken(rows, token), <<>>, FALSE)
         ELSE Outcome(list, rows, <<>>, TRUE)

\* removeToken(symbol)
removeToken(tm, list, rows, symbol, dbOk) ==
    IF tm = "memory"
    THEN LET tokenIndex == findIndex(list, symbol)
         IN  IF tokenIndex = NotFound THEN Outcome(list, rows, <<FALSE>>, FALSE)
             ELSE LET spliced == [i \in 1..(Len(list) - 1) |->
                                     IF i < tokenIndex THEN list[i] ELSE list[i + 1]]
                  IN  IF dbOk THEN Outcome(spliced, deleteToken(rows, symbol), <<TRUE>>, FALSE)
                      ELSE Outcome(spliced, rows, <<FALSE>>, FALSE)
    ELSE IF dbOk THEN Outcome(list, deleteToken(rows, symbol), <<>>, FALSE)
         ELSE Outcome(list, rows, <<>>, TRUE)

(***************************************************************************)
(* IndicatorService.  Three classes: "DatabaseService.ts:192" fetches the  *)
(* configured pair only, "DatabaseService.ts:348" adds the fallback pairs, *)
(* "part_002" adds the in-memory price histories and classifies with its   *)
(* own PatternAnalyzer in place of the SignalGenerator.                    *)
(***************************************************************************)
IndicatorServices == {"DatabaseService.ts:192", "DatabaseService.ts:348", "part_002"}

\* const FALLBACK_PAIRS: Record<string, string[]>
FALLBACK_PAIRS(symbol) ==
    IF symbol = "BONK" THEN <<"6oFW", "3Ne4">>
    ELSE IF symbol = "WIF" THEN <<"ep2i", "d6nd", "6qgy">>
    ELSE <<>>

\* the longest list of pairs a fetch tries for the tokens of the model
MaxPairs == 3

NewResult ==
    [processed |-> 0, failed |-> 0, signals |-> [BUY |-> 0, SELL |-> 0, NONE |-> 0],
     errors |-> <<>>]

\* result.signals[direction]++, guarded by `direction in result.signals`
CountSignal(res, direction) ==
    IF direction \in DOMAIN res.signals
    THEN [res EXCEPT !.signals[direction] = @ + 1]
    ELSE res

\* fault injection: the loop goes on after a pair answered and returns the
\* answer of the last pair that answers
RECURSIVE TryPairs_PastAnswer(_, _, _, _)
TryPairs_PastAnswer(pairsToTry, i, fetched, attempted) ==
    LET currentPair == pairsToTry[i]
        tried == Append(attempted, currentPair)
    IN  IF i = Len(pairsToTry)
        THEN [ok |-> fetched[i], index |-> i, pair |-> currentPair, attempted |-> tried]
        ELSE TryPairs_PastAnswer(pairsToTry, i + 1, fetched, tried)

\* the loop of fetchPriceDataWithFallbacks from index i: fetched[i] tells
\* whether fetchPriceData(pairsToTry[i]) returns; attempted lists the pairs
\* fetchPriceData was called with
RECURSIVE TryPairs(_, _, _, _)
TryPairs(pairsToTry, i, fetched, attempted) ==
    LET currentPair == pairsToTry[i]
        tried == Append(attempted, currentPair)
    IN  IF fetched[i]
        THEN [ok |-> TRUE, index |-> i, pair |-> currentPair, attempted |-> tried]
        ELSE IF i = Len(pairsToTry)
        THEN [ok |-> FALSE, index |-> i, pair |-> currentPair, attempted |-> tried]
        ELSE TryPairs(pairsToTry, i + 1, fetched, tried)

\* const pairsToTry = [pairAddress, ...(FALLBACK_PAIRS[symbol] || [])];
\* "DatabaseService.ts:192" calls fetchPriceData(pair) alone
PairsToTry(service, symbol, pairAddress) ==
    IF service = "DatabaseService.ts:192" THEN <<pairAddress>>
    ELSE <<pairAddress>> \o FALLBACK_PAIRS(symbol)

\* await this.tokenManager.updateToken(symbol, { pair: currentPair }), for a
\* fallback that answered (i > 0); pairOk: the database accepts that write
PersistPair(tm, list, rows, symbol, t, pairOk) ==
    IF t.ok /\ t.index > 1
    THEN updateToken(tm, list, rows, symbol, [pair |-> t.pair], pairOk)
    ELSE Outcome(list, rows, <<>>, FALSE)

\* what fetchPriceDataWithFallbacks leaves: whether it threw, the pair that
\* answered, the pairs tried, the pair it wrote, the token list and the table
FetchResult(t, saved) ==
    [threw |-> ~t.ok, pair |-> t.pair, attempted |-> t.attempted,
     persisted |-> IF t.ok /\ t.index > 1 THEN <<t.pair>> ELSE <<>>,
     tokens |-> saved.tokens, rows |-> saved.rows]

\* fetchPriceDataWithFallbacks(symbol, pairAddress)
fetchPriceDataWithFallbacks(service, tm, list, rows, symbol, pairAddress, fetched, pairOk) ==
    CHOOSE r \in UNION {{FetchResult(t, saved) :
                            saved \in {PersistPair(tm, list, rows, symbol, t, pairOk)}} :
                        t \in {TryPairs(PairsToTry(service, symbol, pairAddress), 1, fetched,
                                        <<>>)}} : TRUE

\* the length the in-memory history of a symbol is cut to
PRICE_HISTORY_LIMIT == 1440

\* fault injection: the newest price is dropped in place of the oldest
updatePriceHistory_DropsNewest(histories, symbol, price) ==
    LET history == Append(IF symbol \in DOMAIN histories THEN histories[symbol] ELSE <<>>,
                          price)
        kept == IF Len(history) > PRICE_HISTORY_LIMIT
                THEN SubSeq(history, 1, PRICE_HISTORY_LIMIT) ELSE history
    IN  [s \in DOMAIN histories \cup {symbol} |-> IF s = symbol THEN kept ELSE histories[s]]

\* updatePriceHistory(symbol, price)
updatePriceHistory(histories, symbol, price) ==
    LET history == Append(IF symbol \in DOMAIN histories THEN histories[symbol] ELSE <<>>,
                          price)
        kept == IF Len(history) > PRICE_HISTORY_LIMIT THEN Tail(history) ELSE history
    IN  [s \in DOMAIN histories \cup {symbol} |-> IF s = symbol THEN kept ELSE histories[s]]

\* the prices DexScreener answers with: the n-th price fetched for a symbol is n
NextPrice(histories, symbol) ==
    IF symbol \in DOMAIN histories /\ histories[symbol] # <<>>
    THEN histories[symbol][Len(histories[symbol])] + 1
    ELSE 1

\* update cycles in one run
MaxCycles == 1

\* a running updateAllTokens: the tokens it iterates over, the index of the
\* next one, its result so far, and the tokens its loop body ran for, each
\* with whether updateSingleToken threw (ghost)
Cycle(activeTokens) ==
    [activeTokens |-> activeTokens, next |-> 1, result |-> NewResult, visited |-> <<>>]

\* `${token.symbol}: ${error.message}`
TokenError(symbol, message) == <<symbol, ": ", message>>

\* updateAllTokens up to its loop: getActiveTokens and the empty-list return
UpdateAllTokens(dbOk) ==
    /\ callers = <<>>
    /\ app.started < MaxCycles
    /\ app' = [app EXCEPT !.started = @ + 1]
    /\ LET activeTokens == getActiveTokens(app.tokenManager, tokens, dbTokens, dbOk)
       IN  IF Len(activeTokens) = 0
           THEN /\ result' = <<[NewResult EXCEPT
                                   !.errors = <<"No active tokens configured">>]>>
                /\ call' = [op |-> "updateAllTokens", activeTokens |-> activeTokens,
                            visited |-> <<>>, threw |-> FALSE]
                /\ callers' = callers
           ELSE /\ callers' = Cycle(activeTokens)
                /\ call' = [op |-> "getActiveTokens", activeTokens |-> activeTokens]
                /\ result' = <<>>
    /\ UNCHANGED <<build, clock, evals, signalHistory, submitted, classified, config,
                   overrides, sinceClear, tokens, dbTokens, priceHistories>>

\* the return after the loop
ReturnResult ==
    /\ callers # <<>>
    /\ callers.next > Len(callers.activeTokens)
    /\ result' = <<callers.result>>
    /\ call' = [op |-> "updateAllTokens", activeTokens |-> callers.activeTokens,
                visited |-> callers.visited, threw |-> FALSE]
    /\ callers' = <<>>
    /\ UNCHANGED <<build, clock, evals, signalHistory, submitted, classified, config,
                   overrides, sinceClear, serviceVars>>

\* fault injection: a token whose update throws ends the loop
Iteration_Aborting(token, res, threw, message, fetch, counted, inputs) ==
    /\ callers' = [callers EXCEPT
                      !.next = IF threw THEN Len(callers.activeTokens) + 1 ELSE @ + 1,
                      !.visited = Append(@, [token |-> token, threw |-> threw]),
                      !.result = IF threw
                                 THEN [res EXCEPT !.failed = @ + 1,
                                                  !.errors = Append(@, TokenError(token.symbol,
                                                                                 message))]
                                 ELSE [res EXCEPT !.processed = @ + 1]]
    /\ call' = [op |-> "updateSingleToken", token |-> token, index |-> callers.next,
                threw |-> threw, attempted |-> fetch.attempted, pair |-> fetch.pair,
                fetchThrew |-> fetch.threw, persisted |-> fetch.persisted,
                counted |-> counted, pre |-> tokens, preRows |-> dbTokens,
                prePrices |-> priceHistories,
                fetched |-> inputs.fetched, pairOk |-> inputs.pairOk]
    /\ result' = <<>>

\* one iteration of the loop: updateSingleToken left res and either returned
\* or threw, which the catch of the loop body turns into an errors entry
Iteration(token, res, threw, message, fetch, counted, inputs) ==
    /\ callers' = [callers EXCEPT
                      !.next = @ + 1,
                      !.visited = Append(@, [token |-> token, threw |-> threw]),
                      !.result = IF threw
                                 THEN [res EXCEPT !.failed = @ + 1,
                                                  !.errors = Append(@, TokenError(token.symbol,
                                                                                 message))]
                                 ELSE [res EXCEPT !.processed = @ + 1]]
    /\ call' = [op |-> "updateSingleToken", token |-> token, index |-> callers.next,
                threw |-> threw, attempted |-> fetch.attempted, pair |-> fetch.pair,
                fetchThrew |-> fetch.threw, persisted |-> fetch.persisted,
                counted |-> counted, pre |-> tokens, preRows |-> dbTokens,
                prePrices |-> priceHistories,
                fetched |-> inputs.fetched, pairOk |-> inputs.pairOk]
    /\ result' = <<>>

\* the signal counter and the write of the signal: result.signals[direction]++
\* and then await this.tokenManager.updateToken(symbol, { signal })
CountAndSave(token, fetch, out, signalOk) ==
    IF "thrown" \in DOMAIN out.ret
    THEN [res |-> callers.result, threw |-> TRUE, message |-> out.ret.thrown,
          counted |-> <<>>, tokens |-> fetch.tokens, rows |-> fetch.rows]
    ELSE LET saved == updateToken(app.tokenManager, fetch.tokens, fetch.rows, token.symbol,
                                  [signal |-> <<out.ret>>], signalOk)
         IN  [res |-> CountSignal(callers.result, out.ret.direction), threw |-> saved.threw,
              message |-> "Database query failed", counted |-> <<out.ret.direction>>,
              tokens |-> saved.tokens, rows |-> saved.rows]

\* updateSingleToken of the two services of DatabaseService.ts, within
\*     try { await this.updateSingleToken(token, result); result.processed++ }
\*     catch { result.failed++; result.errors.push(...) }
\* w is what getRecentPrices returns, signalOk whether the database takes
\* the write of updateToken(symbol, { signal })
UpdateSingleToken(fetched, w, pairOk, signalOk) ==
    /\ callers # <<>>
    /\ callers.next <= Len(callers.activeTokens)
    /\ app.indicatorService # "part_002"
    /\ \E token \in {callers.activeTokens[callers.next]},
          inputs \in {[fetched |-> fetched, pairOk |-> pairOk]} :
         \E fetch \in {fetchPriceDataWithFallbacks(app.indicatorService, app.tokenManager,
                            tokens, dbTokens, token.symbol, token.pair, fetched, pairOk)} :
           IF fetch.threw
           THEN /\ Iteration(token, callers.result, TRUE, "All pair addresses failed", fetch,
                             <<>>, inputs)
                /\ tokens' = fetch.tokens
                /\ dbTokens' = fetch.rows
                /\ UNCHANGED <<clock, evals, signalHistory, submitted, classified, sinceClear>>
           ELSE IF InsufficientData_Caller(w)
           THEN /\ \E res \in {CountSignal(callers.result, "NONE")} :
                       Iteration(token, res, FALSE, "", fetch, <<"NONE">>, inputs)
                /\ tokens' = fetch.tokens
                /\ dbTokens' = fetch.rows
                /\ UNCHANGED <<clock, evals, signalHistory, submitted, classified, sinceClear>>
           ELSE \E out \in {generateSignal(build, signalHistory, token.symbol, w, clock)} :
                  \E e \in {CountAndSave(token, fetch, out, signalOk)} :
                    /\ \E res \in {e.res} :
                           Iteration(token, res, e.threw, e.message, fetch, e.counted, inputs)
                    /\ tokens' = e.tokens
                    /\ dbTokens' = e.rows
                    /\ signalHistory' = out.history
                    /\ submitted' = [submitted EXCEPT ![token.symbol] = @ \o out.pushed]
                    /\ classified' = IF InsufficientData(w) \/ Throws(w) THEN classified
                                     ELSE [classified EXCEPT ![token.symbol] =
                                             Append(@, analyzeQuadraticPattern(build, w).direction)]
                    /\ sinceClear' = IF InsufficientData(w) \/ Throws(w) THEN sinceClear
                                     ELSE [sinceClear EXCEPT ![token.symbol] = @ + 1]
                    /\ clock' = clock + 60 * 1000
                    /\ evals' = evals + 1
    /\ UNCHANGED <<build, config, overrides, priceHistories, app>>

\* what PatternAnalyzer.analyzePattern returns as direction
Directions == {"BUY", "SELL", "NONE"}

\* updateSingleToken of "part_002": the price goes to the in-memory history,
\* and a history of at least 60 prices is classified by analyzePattern, which
\* catches its own errors; saveFullIndicators and saveSignal are wrapped in
\* try/catch and write tables that are not read back
UpdateSingleTokenInMemory(fetched, direction, pairOk) ==
    /\ callers # <<>>
    /\ callers.next <= Len(callers.activeTokens)
    /\ app.indicatorService = "part_002"
    /\ \E token \in {callers.activeTokens[callers.next]},
          inputs \in {[fetched |-> fetched, pairOk |-> pairOk]} :
         \E fetch \in {fetchPriceDataWithFallbacks(app.indicatorService, app.tokenManager,
                            tokens, dbTokens, token.symbol, token.pair, fetched, pairOk)},
            histories \in {updatePriceHistory(priceHistories, token.symbol,
                                              NextPrice(priceHistories, token.symbol))} :
           /\ tokens' = fetch.tokens
           /\ dbTokens' = fetch.rows
           /\ IF fetch.threw
              THEN /\ Iteration(token, callers.result, TRUE, "All pair addresses failed",
                                fetch, <<>>, inputs)
                   /\ priceHistories' = priceHistories
              ELSE /\ priceHistories' = histories
                   /\ \E counted \in {IF Len(histories[token.symbol]) >= 60
                                       THEN direction ELSE "NONE"} :
                        \E res \in {CountSignal(callers.result, counted)} :
                          Iteration(token, res, FALSE, "", fetch, <<counted>>, inputs)
    /\ UNCHANGED <<build, clock, evals, signalHistory, submitted, classified, config,
                   overrides, sinceClear, app>>

(***************************************************************************)
(* Update cycles over a loaded token list                                  *)
(***************************************************************************)
Sol == Token("SOL", "58oQ", TRUE)
Bonk == Token("BONK", "FE8H", TRUE)

\* the lists loadTokens leaves in this.tokens, as read from the table
TokenLists ==
    {<<>>, <<Sol, Bonk>>, <<Bonk, Sol>>, <<[Sol EXCEPT !.active = FALSE], Bonk>>,
     <<[Sol EXCEPT !.active = FALSE]>>}

\* 59 samples: one short of what updateSingleToken asks for
FewPrices == Window(59, 1, 259, 259, 1000, 1060)

UpdateWindows ==
    {BuyModerateWindow, SellWindow, FewPrices,
     FaultWindow("Cannot mix BigInt and other types")}

\* which calls of fetchPriceData answer, by position in pairsToTry
Fetches == [1..MaxPairs -> BOOLEAN]

\* DexScreener answers for every pair, or for none
Networks == {[i \in 1..MaxPairs |-> up] : up \in BOOLEAN}

\* the price histories of "part_002" after n fetches of every symbol
PricesAfter(n) == [s \in Symbols |-> [i \in 1..n |-> i]]

\* the service after initialize(): the tokens of the table are loaded
InitUpdate ==
    /\ GeneratorConstructed(NoCall)
    /\ tokens \in TokenLists
    /\ dbTokens = tokens
    /\ app \in {App(tm, service) : tm \in TokenManagers, service \in IndicatorServices}
    /\ priceHistories \in IF app.indicatorService = "part_002"
                          THEN {PricesAfter(0), PricesAfter(59)}
                          ELSE {PricesAfter(0)}

\* cycles whose tokens fail in the fetch, in the evaluation or in the write
\* of the signal
NextUpdate ==
    \/ \E dbOk \in BOOLEAN : UpdateAllTokens(dbOk)
    \/ \E fetched \in Networks, w \in UpdateWindows, signalOk \in BOOLEAN :
           UpdateSingleToken(fetched, w, TRUE, signalOk)
    \/ \E fetched \in Networks, direction \in Directions :
           UpdateSingleTokenInMemory(fetched, direction, TRUE)
    \/ ReturnResult

SpecUpdate == InitUpdate /\ [][NextUpdate]_vars

\* cycles whose pairs answer or fail one by one, over histories too short
\* for an evaluation
NextFetch ==
    \/ UpdateAllTokens(TRUE)
    \/ \E fetched \in Fetches, pairOk \in BOOLEAN :
           UpdateSingleToken(fetched, FewPrices, pairOk, TRUE)
    \/ \E fetched \in Fetches, pairOk \in BOOLEAN :
           UpdateSingleTokenInMemory(fetched, "NONE", pairOk)
    \/ ReturnResult

SpecFetch == InitUpdate /\ [][NextFetch]_vars

(***************************************************************************)
(* The update loop of IndicatorUpdaterApp: start, the interval timer,      *)
(* runUpdateCycle and shutdown.  A step is one task of the event loop      *)
(* together with the promise continuations it releases.                    *)
(***************************************************************************)
\* update cycles in one run of the loop
MaxLoopCycles == 5

\* how the updateAllTokens a cycle awaits ends
CycleOutcomes == {"resolved", "rejected"}

\* fault injection: runUpdateCycle without its try/catch
runUpdateCycle_NoCatch(outcome) == IF outcome = "rejected" THEN "rejected" ELSE "fulfilled"

\* runUpdateCycle: the try/catch around `await updateAllTokens()` logs a
\* rejection, so the promise of runUpdateCycle is fulfilled either way
runUpdateCycle(outcome) == "fulfilled"

\* tasks run while the process lives and no continuation is pending:
\* shutdown's `await close()` resumes before any timer or I/O callback
Idle == ~app.exited /\ ~app.stopping

LoopFrame ==
    UNCHANGED <<build, clock, evals, signalHistory, submitted, classified, callers, config,
                overrides, sinceClear, tokens, dbTokens, priceHistories>>

\* start(): returns at once when running; otherwise sets isRunning and
\* awaits the initial cycle
Start ==
    /\ Idle
    /\ app.isRunning \/ app.started < MaxLoopCycles
    /\ app' = IF app.isRunning THEN app
              ELSE [app EXCEPT !.isRunning = TRUE, !.awaiting = TRUE,
                               !.running = @ + 1, !.started = @ + 1]
    /\ call' = [op |-> "start", pre |-> app]
    /\ result' = <<>>
    /\ LoopFrame

\* the updateAllTokens of a cycle settles.  For the initial cycle start()
\* resumes: setInterval and the signal handlers; if runUpdateCycle rejected,
\* start() rejects and main() exits the process.  For a timer cycle the
\* callback of setInterval ends.
CycleEnds(outcome, initial) ==
    /\ Idle
    /\ app.running > 0
    /\ initial => app.awaiting
    /\ ~initial => app.running > (IF app.awaiting THEN 1 ELSE 0)
    /\ LET settled == runUpdateCycle(outcome)
       IN  /\ app' = IF ~initial THEN [app EXCEPT !.running = @ - 1]
                     ELSE IF settled = "fulfilled"
                     THEN [app EXCEPT !.running = @ - 1, !.awaiting = FALSE,
                                      !.intervals = @ + 1]
                     ELSE [app EXCEPT !.running = @ - 1, !.awaiting = FALSE,
                                      !.exited = TRUE]
           /\ call' = [op |-> "runUpdateCycle", outcome |-> outcome, initial |-> initial,
                       settled |-> settled, pre |-> app]
    /\ result' = <<>>
    /\ LoopFrame

\* the callback of setInterval
Tick ==
    /\ Idle
    /\ app.intervals > 0
    /\ app.started < MaxLoopCycles
    /\ app' = IF app.isRunning
              THEN [app EXCEPT !.running = @ + 1, !.started = @ + 1]
              ELSE [app EXCEPT !.intervals = @ - 1]
    /\ call' = [op |-> "tick", pre |-> app]
    /\ result' = <<>>
    /\ LoopFrame

\* shutdown() up to `await this.databaseService.close()`
Shutdown ==
    /\ Idle
    /\ app' = [app EXCEPT !.isRunning = FALSE, !.stopping = TRUE]
    /\ call' = [op |-> "shutdown", pre |-> app]
    /\ result' = <<>>
    /\ LoopFrame

\* close() only logs: shutdown resumes and calls process.exit(0)
Exit ==
    /\ app.stopping
    /\ ~app.exited
    /\ app' = [app EXCEPT !.stopping = FALSE, !.exited = TRUE]
    /\ call' = [op |-> "exit", pre |-> app]
    /\ result' = <<>>
    /\ LoopFrame

NextLoop ==
    \/ Start
    \/ \E outcome \in CycleOutcomes, initial \in BOOLEAN : CycleEnds(outcome, initial)
    \/ Tick
    \/ Shutdown
    \/ Exit

SpecLoop == Init /\ [][NextLoop]_vars

\* the timer fires as long as it is armed, and shutdown runs to its exit
SpecLoopFair == SpecLoop /\ WF_vars(Tick) /\ WF_vars(Exit)

(***************************************************************************)
(* Mutations of the token list through the first TokenManager              *)
(***************************************************************************)
MaxMutations == 3

\* tokens given to addToken
NewTokens == {Sol, Bonk, Token("BONK", "6oFW", FALSE)}

\* updates given to updateToken
TokenUpdates == {[active |-> FALSE], [pair |-> "3Ne4"]}

Mutation(op, argument, dbOk, out) ==
    /\ evals < MaxMutations
    /\ evals' = evals + 1
    /\ tokens' = out.tokens
    /\ dbTokens' = out.rows
    /\ result' = out.returned
    /\ call' = [op |-> op, argument |-> argument, dbOk |-> dbOk, threw |-> out.threw,
                pre |-> tokens, preRows |-> dbTokens]
    /\ UNCHANGED <<build, clock, signalHistory, submitted, classified, callers, config,
                   overrides, sinceClear, priceHistories, app>>

AddToken(token, dbOk) ==
    Mutation("addToken", token, dbOk, addToken(app.tokenManager, tokens, dbTokens, token, dbOk))

UpdateToken(symbol, updates, dbOk) ==
    Mutation("updateToken", <<symbol, updates>>, dbOk,
             updateToken(app.tokenManager, tokens, dbTokens, symbol, updates, dbOk))

RemoveToken(symbol, dbOk) ==
    Mutation("removeToken", symbol, dbOk,
             removeToken(app.tokenManager, tokens, dbTokens, symbol, dbOk))

\* the first TokenManager after loadTokens
InitTokens ==
    /\ GeneratorConstructed(NoCall)
    /\ tokens \in TokenLists
    /\ dbTokens = tokens
    /\ app = App("memory", "DatabaseService.ts:348")
    /\ priceHistories = PricesAfter(0)

NextTokens ==
    \/ \E token \in NewTokens, dbOk \in BOOLEAN : AddToken(token, dbOk)
    \/ \E symbol \in Symbols, updates \in TokenUpdates, dbOk \in BOOLEAN :
           UpdateToken(symbol, updates, dbOk)
    \/ \E symbol \in Symbols, dbOk \in BOOLEAN : RemoveToken(symbol, dbOk)

SpecTokens == InitTokens /\ [][NextTokens]_vars

(***************************************************************************)
(* The in-memory price histories of "part_002" around their limit          *)
(***************************************************************************)
\* successful fetches of a symbol before the run: none, one short of an
\* analysis, and up to the limit
FetchedBefore == {0, 59, PRICE_HISTORY_LIMIT - 1, PRICE_HISTORY_LIMIT}

InitPrices ==
    /\ GeneratorConstructed(NoCall)
    /\ build = "part_000"
    /\ tokens = <<Sol, Bonk>>
    /\ dbTokens = tokens
    /\ app \in {App(tm, "part_002") : tm \in TokenManagers}
    /\ priceHistories \in {PricesAfter(n) : n \in FetchedBefore}

NextPrices ==
    \/ UpdateAllTokens(TRUE)
    \/ \E fetched \in Networks, direction \in {"BUY", "NONE"} :
           UpdateSingleTokenInMemory(fetched, direction, TRUE)
    \/ ReturnResult

SpecPrices == InitPrices /\ [][NextPrices]_vars

(***************************************************************************)
(* Properties                                                              *)
(***************************************************************************)
Evaluated == call.op = "generateSignal"
Returned == result[1]
\* the evaluation went through the StabilityFilter, which pushed Fresh
Filtered == Evaluated /\ call.pushed # <<>>
Fresh == call.pushed[1]
HistoryNow == HistoryOf(signalHistory, call.symbol)

StartsWith(seq, prefix) ==
    Len(seq) >= Len(prefix) /\ SubSeq(seq, 1, Len(prefix)) = prefix
EndsWith(seq, suffix) ==
    Len(seq) >= Len(suffix) /\ SubSeq(seq, Len(seq) - Len(suffix) + 1, Len(seq)) = suffix

\* the last k entries of a sequence of at least k entries
LastEntries(seq, k) == [i \in 1..k |-> seq[Len(seq) - k + i]]

RECURSIVE ConfidenceTotal(_, _)
ConfidenceTotal(seq, k) ==
    IF k = 0 THEN 0 ELSE seq[k].confidence + ConfidenceTotal(seq, k - 1)

\* the last STABILITY_BUFFER entries of h exist, agree and are not NONE
AgreeingTail(h) ==
    /\ Len(h) >= STABILITY_BUFFER
    /\ LET tail == LastEntries(h, STABILITY_BUFFER)
       IN  /\ tail[1].direction # "NONE"
           /\ \A i \in 1..STABILITY_BUFFER : tail[i].direction = tail[1].direction

\* C1: a window of n < 360 samples returns NONE with confidence 0 and a
\* reason containing "n/360", and leaves the history map as it was: nothing
\* appended for the symbol and no history created for it.
C1_InsufficientDataLeavesHistory ==
    (Evaluated /\ call.window.n < 360) =>
        /\ Returned.direction = "NONE"
        /\ Returned.confidence = 0
        /\ \E i \in 1..(Len(Returned.reason) - 2) :
              /\ Returned.reason[i] = ToString(call.window.n)
              /\ Returned.reason[i + 1] = "/"
              /\ Returned.reason[i + 2] = "360"
        /\ signalHistory = call.pre
        /\ call.pushed = <<>>

\* a 359-sample window evaluated for a symbol that has no history, after
\* another symbol was classified
C1_Witness ==
    /\ Evaluated /\ call.window.n = 359
    /\ call.symbol \notin DOMAIN signalHistory
    /\ DOMAIN signalHistory # {}
    /\ Returned.direction = "NONE"

\* C2: when, after the append, the history holds at least STABILITY_BUFFER
\* entries and the last STABILITY_BUFFER of them share one direction that is
\* not NONE, the emitted record is stable and its confidence is the
\* arithmetic mean of the confidences of exactly those entries.
C2_StableIsMeanOfRecent ==
    (Filtered /\ AgreeingTail(HistoryNow)) =>
        /\ Returned.stable = TRUE
        /\ Returned.confidence * STABILITY_BUFFER =
              ConfidenceTotal(LastEntries(HistoryNow, STABILITY_BUFFER), STABILITY_BUFFER)

\* STABILITY_BUFFER BUYs of differing confidence from an empty history
C2_Witness ==
    /\ Filtered /\ AgreeingTail(HistoryNow)
    /\ Len(HistoryNow) = STABILITY_BUFFER
    /\ Fresh.direction = "BUY"
    /\ \E i \in 1..Len(HistoryNow) : HistoryNow[i].confidence # Fresh.confidence
    /\ Returned.stable = TRUE

\* C3: a stable record is emitted for a symbol only if the STABILITY_BUFFER
\* most recent classifications of that symbol (every evaluation of at least
\* 360 samples, the too-recent and too-aged NONE included) all had the
\* record's direction, and that direction is not NONE.
C3_StableOnlyAfterAgreement ==
    (Evaluated /\ "stable" \in DOMAIN Returned /\ Returned.stable) =>
        LET c == classified[call.symbol]
        IN  /\ Returned.direction # "NONE"
            /\ Len(c) >= STABILITY_BUFFER
            /\ \A i \in 1..STABILITY_BUFFER :
                  LastEntries(c, STABILITY_BUFFER)[i] = Returned.direction

\* C4: every evaluation of at least 360 samples appends exactly one record
\* to the symbol's history and returns a record with a stability suffix and
\* a boolean stable flag, whatever the classifier decided.
C4_EveryEvaluationFiltered ==
    (Evaluated /\ call.window.n >= 360) =>
        /\ Len(call.pushed) = 1
        /\ LET grown == Append(HistoryOf(call.pre, call.symbol), Fresh)
               kept == Min(Len(grown), 2 * STABILITY_BUFFER)
           IN  /\ Len(HistoryNow) = kept
               /\ \A i \in 1..kept : HistoryNow[i] = LastEntries(grown, kept)[i]
        /\ "stable" \in DOMAIN Returned
        /\ Returned.stable \in BOOLEAN
        /\ \/ EndsWith(Returned.reason, <<" (", "3", "x confirmed)">>)
           \/ EndsWith(Returned.reason, <<" (awaiting confirmation)">>)

C6_ConfidenceTwoDecimals ==
    Evaluated =>
        /\ Returned.confidence >= 0
        /\ Returned.confidence <= ConfScale
        /\ Returned.confidence % Hundredth = 0

\* C7: when the filter does not confirm, the emitted record is the fresh
\* record with stable = false, 0.8 times its confidence and its reason
\* suffixed "(awaiting confirmation)"; every other field is the fresh one's.
C7_UnconfirmedIsReducedFresh ==
    (Filtered /\ ~AgreeingTail(HistoryNow)) =>
        /\ Returned.stable = FALSE
        /\ 5 * Returned.confidence = 4 * Fresh.confidence
        /\ Returned.reason = Fresh.reason \o <<" (awaiting confirmation)">>
        /\ DOMAIN Returned = DOMAIN Fresh \cup {"stable"}
        /\ \A k \in DOMAIN Fresh \ {"confidence", "reason"} : Returned[k] = Fresh[k]

\* a BUY after a full buffer whose entries disagree
C7_Witness ==
    /\ Filtered /\ ~AgreeingTail(HistoryNow)
    /\ Len(HistoryNow) >= STABILITY_BUFFER
    /\ Fresh.direction = "BUY"
    /\ Fresh.confidence > 0
    /\ Returned.stable = FALSE

\* the vertex age the evaluated window has: (N - 1) - vertexIndex
VertexAge(w) == (WINDOW - 1) - VertexIdx(w)
\* the last classification made for the evaluated symbol
Classification == classified[call.symbol][Len(classified[call.symbol])]
Classified == Evaluated /\ call.window.n >= WINDOW

\* C8: a U-shaped window whose change exceeds MIN_MAGNITUDE and whose vertex
\* is older than MAX_VERTEX_AGE is classified NONE with confidence 0 and
\* reason "Pattern too aged for BUY"; an inverted-U window whose change is
\* below -MIN_MAGNITUDE stays SELL however old its vertex is.
C8_AgingCapOnlyForBuy ==
    Classified =>
        LET w == call.window
            pct == PctChangeVertexToRecent(w)
        IN  /\ (w.a > 0 /\ 2 * pct.num > 3 * pct.den /\ VertexAge(w) > MAX_VERTEX_AGE) =>
                  /\ Classification = "NONE"
                  /\ Returned.direction = "NONE"
                  /\ Returned.confidence = 0
                  /\ StartsWith(Returned.reason, <<"Pattern too aged for BUY (>">>)
            /\ (w.a < 0 /\ 2 * pct.num < -3 * pct.den /\ VertexAge(w) > MAX_VERTEX_AGE) =>
                  /\ Classification = "SELL"
                  /\ Returned.direction = "SELL"
                  /\ Returned.confidence > 0

\* an inverted-U window, -10% since a vertex 150 minutes back, returned as SELL
C8_Witness ==
    /\ Classified
    /\ call.window.a < 0
    /\ VertexAge(call.window) = 150
    /\ PctChangeVertexToRecent(call.window) = [num |-> -10000, den |-> 1000]
    /\ Returned.direction = "SELL"

\* C9: the vertex index is round(-b / (2a)) clamped to [0, N-1] and the
\* vertex age is (N-1) minus it; the parabola (i-180)^2 + offset over 360
\* points has vertex index 180, vertex age 179 and a U shape.
C9_VertexAgeFromIndex ==
    Classified =>
        LET w == call.window
            x == Rat(-w.b, 2 * w.a)
            rounded == CHOOSE k \in -401..401 : 2 * k * x.den - x.den <= 2 * x.num
                                             /\ 2 * x.num < 2 * k * x.den + x.den
            idx == IF rounded < 0 THEN 0 ELSE IF rounded > 359 THEN 359 ELSE rounded
        IN  /\ call.log.vertexIdx = idx
            /\ call.log.minutesSinceVertex = 359 - idx
            /\ (w = ParabolaWindow =>
                  /\ call.log.vertexIdx = 180
                  /\ call.log.minutesSinceVertex = 179
                  /\ call.log.shape = "U")

ClassifierRecord == IF Filtered THEN Fresh ELSE Returned

\* C11: whenever the vertex age (N - 1) - vertexIndex is below
\* MIN_VERTEX_AGE the classifier gives NONE with confidence 0.1 and a reason
\* "Vertex too recent", whatever the shape and the change are.
C11_TooRecentFirst ==
    (Classified /\ VertexAge(call.window) < MIN_VERTEX_AGE) =>
        /\ Classification = "NONE"
        /\ ClassifierRecord.direction = "NONE"
        /\ 10 * ClassifierRecord.confidence = ConfScale
        /\ StartsWith(ClassifierRecord.reason, <<"Vertex too recent (">>)

\* C12: for a vertex age of at least MIN_VERTEX_AGE (and at most
\* MAX_VERTEX_AGE for BUY) the classification is BUY exactly when a > 0 and
\* the change is above MIN_MAGNITUDE, SELL exactly when a < 0 and the change
\* is below -MIN_MAGNITUDE, and otherwise NONE with confidence 0 and reason
\* "pattern present but insufficient magnitude"; BUY never comes from an
\* inverted U nor SELL from a U.
C12_DecisionTable ==
    (Classified /\ VertexAge(call.window) >= MIN_VERTEX_AGE) =>
        LET w == call.window
            pct == PctChangeVertexToRecent(w)
            up == w.a > 0 /\ 2 * pct.num > 3 * pct.den
            down == w.a < 0 /\ 2 * pct.num < -3 * pct.den
        IN  /\ (up /\ VertexAge(w) <= MAX_VERTEX_AGE) =>
                  Classification = "BUY" /\ ClassifierRecord.direction = "BUY"
            /\ Classification = "BUY" => up
            /\ (Classification = "SELL") = down
            /\ down => ClassifierRecord.direction = "SELL"
            /\ (~up /\ ~down) =>
                  /\ Classification = "NONE"
                  /\ ClassifierRecord.direction = "NONE"
                  /\ ClassifierRecord.confidence = 0
                  /\ \E i \in 1..Len(ClassifierRecord.reason) :
                        ClassifierRecord.reason[i] =
                            " pattern present but insufficient magnitude ("

\* C13: a BUY classification has confidence min(0.95, 0.5 + |change|/15)
\* and a SELL classification min(0.95, 0.5 + |change|/20), rounded to two
\* decimals; so it lies strictly above 0.5 and at most at 0.95.
C13_ConfidenceFormula ==
    (Classified /\ Classification \in {"BUY", "SELL"}) =>
        LET pct == PctChangeVertexToRecent(call.window)
            d == IF Classification = "BUY" THEN 15 ELSE 20
            \* the nearest hundredth of 0.5 + |pct|/d, halves upwards
            hundredths == (101 * d * pct.den + 200 * Abs(pct.num)) \div (2 * d * pct.den)
        IN  /\ ClassifierRecord.direction = Classification
            /\ ClassifierRecord.confidence = Min(95, hundredths) * Hundredth
            /\ 2 * ClassifierRecord.confidence > ConfScale
            /\ 100 * ClassifierRecord.confidence <= 95 * ConfScale

\* a BUY below the cap: +1.6% gives 0.5 + 1.6/15 = 0.6067, stored as 0.61
C13_Witness ==
    /\ Classified /\ Classification = "BUY"
    /\ PctChangeVertexToRecent(call.window) = [num |-> 1600, den |-> 1000]
    /\ ClassifierRecord.confidence = 61 * Hundredth

\* C14: a BUY or SELL classification carries trendStrength STRONG when the
\* absolute change is above 8, MODERATE when it is above 5 and at most 8,
\* WEAK otherwise; a NONE rejected for its magnitude carries WEAK.
C14_TrendStrength ==
    Classified =>
        LET pct == RatAbs(PctChangeVertexToRecent(call.window))
            rec == ClassifierRecord
            rejected == /\ Classification = "NONE"
                        /\ \E i \in 1..Len(rec.reason) :
                              rec.reason[i] = " pattern present but insufficient magnitude ("
        IN  /\ Classification \in {"BUY", "SELL"} =>
                  /\ "trendStrength" \in DOMAIN rec
                  /\ (rec.trendStrength = "STRONG") = (pct.num > 8 * pct.den)
                  /\ (rec.trendStrength = "MODERATE") =
                        (pct.num > 5 * pct.den /\ pct.num <= 8 * pct.den)
                  /\ (rec.trendStrength = "WEAK") = (pct.num <= 5 * pct.den)
            /\ rejected =>
                  /\ "trendStrength" \in DOMAIN rec
                  /\ rec.trendStrength = "WEAK"

\* a SELL of exactly -8%, reported MODERATE
C14_Witness ==
    /\ Classified /\ Classification = "SELL"
    /\ PctChangeVertexToRecent(call.window) = [num |-> -8000, den |-> 1000]
    /\ ClassifierRecord.trendStrength = "MODERATE"

\* C15: a returned record carries pattern and trendStrength exactly when it
\* is not the insufficient-data NONE: every record made from at least 360
\* samples (the too-recent and the too-aged NONE included) carries both, the
\* insufficient-data record neither.
C15_PatternPresentIffClassified ==
    Evaluated =>
        /\ ("pattern" \in DOMAIN Returned) = (call.window.n >= WINDOW)
        /\ ("trendStrength" \in DOMAIN Returned) = (call.window.n >= WINDOW)

\* C16: when the fitted a is 0, as for a linear series, the evaluation
\* returns NONE with the reason "no curvature detected" and without a
\* U_SHAPED / INVERTED_U classification.
C16_NoCurvature ==
    (Classified /\ call.window.a = 0) =>
        /\ Returned.direction = "NONE"
        /\ \E i \in 1..Len(Returned.reason) : Returned.reason[i] = "no curvature detected"
        /\ "pattern" \notin DOMAIN Returned

\* C17: when the price at the vertex index is zero the evaluation returns
\* NONE with a confidence in [0,1], and neither its confidence nor its
\* magnitude is NaN.
C17_ZeroVertexPrice ==
    (Classified /\ VertexIdx(call.window) # NaN
                /\ PriceAt(call.window, VertexIdx(call.window)) = 0) =>
        /\ Returned.direction = "NONE"
        /\ Returned.confidence >= 0 /\ Returned.confidence <= ConfScale
        /\ "magnitude" \in DOMAIN Returned => ~IsNaN(Returned.magnitude)

\* C18: a fault raised inside the fit or the classification is caught by
\* generateSignal and returned as NONE with confidence 0 and a reason that
\* carries the fault's message; no exception reaches the caller and nothing
\* is appended to the symbol's history.
C18_FaultsCaught ==
    (Evaluated /\ Throws(call.window)) =>
        /\ "thrown" \notin DOMAIN Returned
        /\ Returned.direction = "NONE"
        /\ Returned.confidence = 0
        /\ \E i \in 1..Len(Returned.reason) : Returned.reason[i] = call.window.fault
        /\ signalHistory = call.pre
        /\ call.pushed = <<>>

\* the records a cycle has pushed for a symbol so far
PushesBy(c, symbol) ==
    LET me == callers[c]
        done(k) == me.token > k
                   \/ (me.token = k /\ \E i \in 1..(me.step - 1) : Program[i] = "push")
    IN  Cardinality({k \in 1..Len(ActiveTokens) : ActiveTokens[k] = symbol /\ done(k)})

RECURSIVE SumOver(_, _, _)
SumOver(S, symbol, acc) ==
    IF S = {} THEN acc
    ELSE LET c == CHOOSE x \in S : TRUE
         IN  SumOver(S \ {c}, symbol, acc + PushesBy(c, symbol))

\* C19: under every interleaving of overlapping update cycles, the entries
\* an evaluation reads for its stability decision are the last
\* STABILITY_BUFFER entries of the history as its own append left it (no
\* other evaluation's append comes in between), and no entry is lost or
\* counted twice: each symbol's history is the tail of the records pushed
\* for it, one per evaluation.
C19_EvaluationAtomic ==
    /\ \A c \in DOMAIN callers :
          callers[c].signal # <<>> =>
              /\ callers[c].read = RecentSignals(callers[c].atAppend)
              /\ callers[c].signal[1] =
                    FilteredSignal(callers[c].atAppend, callers[c].newSignal[1])
    /\ callers # <<>> =>
          \A s \in Symbols :
              LET h == HistoryOf(signalHistory, s)
                  given == submitted[s]
              IN  /\ Len(given) = SumOver(Cycles, s, 0)
                  /\ Len(h) = Min(Len(given), 2 * STABILITY_BUFFER)
                  /\ \A i \in 1..Len(h) : h[i] = given[Len(given) - Len(h) + i]
                  /\ \A i, j \in 1..Len(given) : given[i] = given[j] => i = j

\* two cycles overlapped on one token: the first had its prices before the
\* second pushed, and pushed after it
C19_Witness ==
    \E c, d \in DOMAIN callers :
        /\ c # d
        /\ callers[c].step = 1 /\ callers[d].step = 1
        /\ callers[c].token = 2 /\ callers[d].token = 2
        /\ callers[c].signal # <<>> /\ callers[d].signal # <<>>
        /\ callers[c].pricesAt < 1000 * callers[d].newSignal[1].firstDetected
        /\ callers[d].newSignal[1].firstDetected < callers[c].newSignal[1].firstDetected
        /\ callers[c].read = <<callers[d].newSignal[1], callers[c].newSignal[1]>>

\* the value a field is configured to: the override, or the documented default
Expected ==
    overrides @@ [minVertexAge |-> 20, maxVertexAge |-> 120, signalExpiryMinutes |-> 15,
                  minMagnitudePct |-> [num |-> 3, den |-> 2], stabilityBufferSize |-> 3,
                  weightedAlpha |-> [num |-> 1, den |-> 2],
                  useExponentialWeighting |-> FALSE]

\* the value the generator holds for a field, if it holds one
Held(field) ==
    LET key == IF build = "part_000"
               THEN (IF field \in DOMAIN ConfigKeys THEN ConfigKeys[field] ELSE "")
               ELSE IF field = "weightedAlpha" THEN "ALPHA"
               ELSE IF field \in DOMAIN EnvNames THEN EnvNames[field] ELSE ""
    IN  IF key \in DOMAIN config THEN <<config[key]>> ELSE <<>>

SameNumber(held, p) == held # <<>> /\ held[1].num * p.den = p.num * held[1].den

\* C20: each of the seven configuration fields holds its override when it
\* is overridden and its default (20, 120, 15, 1.5, 3, 0.5, false) when it
\* is not, whatever else is overridden, and the classifier works with the
\* configured values: the configured minMagnitudePct is the BUY/SELL
\* threshold, the configured ages bound the vertex age, the configured
\* expiry dates the record.
C20_ConfiguredValuesUsed ==
    /\ Held("minVertexAge") = <<Expected.minVertexAge>>
    /\ Held("maxVertexAge") = <<Expected.maxVertexAge>>
    /\ Held("signalExpiryMinutes") = <<Expected.signalExpiryMinutes>>
    /\ Held("stabilityBufferSize") = <<Expected.stabilityBufferSize>>
    /\ SameNumber(Held("minMagnitudePct"), Expected.minMagnitudePct)
    /\ SameNumber(Held("weightedAlpha"), Expected.weightedAlpha)
    /\ Held("useExponentialWeighting") = <<Expected.useExponentialWeighting>>
    /\ Classified =>
          LET w == call.window
              pct == PctChangeVertexToRecent(w)
              m == Expected.minMagnitudePct
              age == call.log.minutesSinceVertex
          IN  /\ (Classification = "BUY") =
                    /\ w.a > 0 /\ pct.num * m.den > m.num * pct.den
                    /\ age >= Expected.minVertexAge /\ age <= Expected.maxVertexAge
              /\ (Classification = "SELL") =
                    /\ w.a < 0 /\ pct.num * m.den < -m.num * pct.den
                    /\ age >= Expected.minVertexAge
              /\ Returned.expiresAt =
                    (call.now + Expected.signalExpiryMinutes * 60 * 1000) \div 1000

\* the evaluation timestamp of the last call: the one its caller supplied,
\* the clock's when it supplied none
SuppliedNow == IF call.lastUpdated # <<>> THEN call.lastUpdated[1] ELSE call.now

\* C21: every record returned by an evaluation has firstDetected and
\* lastEvaluated equal to the evaluation timestamp its caller supplied (to
\* the second) and expiresAt equal to that timestamp plus
\* SIGNAL_EXPIRY_MINUTES minutes, be it the insufficient-data record, an
\* unstable record or a stable one.
C21_TimestampsFromNow ==
    Evaluated =>
        /\ Returned.firstDetected = SuppliedNow \div 1000
        /\ Returned.lastEvaluated = SuppliedNow \div 1000
        /\ Returned.expiresAt = (SuppliedNow + SIGNAL_EXPIRY_MINUTES * 60 * 1000) \div 1000

\* C22: a symbol has a history exactly from its first classified evaluation
\* (one of at least 360 samples) on; an evaluation of one symbol leaves the
\* history of every other symbol as it was, creating none; and whether the
\* returned record is stable is decided by the evaluated symbol's own history
\* with the fresh record appended.
C22_HistoryPerSymbol ==
    /\ \A s \in Symbols : (s \in DOMAIN signalHistory) = (classified[s] # <<>>)
    /\ Evaluated =>
          /\ DOMAIN signalHistory \subseteq DOMAIN call.pre \cup {call.symbol}
          /\ \A s \in DOMAIN call.pre \ {call.symbol} :
                s \in DOMAIN signalHistory /\ signalHistory[s] = call.pre[s]
          /\ Filtered =>
                Returned.stable =
                    AgreeingTail(Append(HistoryOf(call.pre, call.symbol), Fresh))

\* the series is a * i^2 + b * i + c for integers a, b, c
IsQuadratic(y) ==
    /\ (y[3] - 2 * y[2] + y[1]) % 2 = 0
    /\ \A k \in 1..(Len(y) - 2) : y[k + 2] - 2 * y[k + 1] + y[k] = y[3] - 2 * y[2] + y[1]

\* its coefficients <<a, b, c>>
CoefficientsOf(y) ==
    LET a == (y[3] - 2 * y[2] + y[1]) \div 2
    IN  <<a, y[2] - y[1] - a, y[1]>>

\* x < y for two positive numbers
PositiveLess(x, y) == x.e < y.e \/ (x.e = y.e /\ x.m < y.m)

\* the generator fits with exponential weights
ExponentialWeighting == "WEIGHTED_POLYNOMIAL" \in DOMAIN config /\ config.WEIGHTED_POLYNOMIAL

Cleared == call.op = "clearHistory"

(* C24: clearHistory(symbol) removes exactly the history of that symbol    *)
(* and leaves every other symbol's history unchanged; clearHistory()       *)
(* without an argument removes all histories; and an evaluation of a       *)
(* symbol returns stable = true only when at least STABILITY_BUFFER        *)
(* classified evaluations of it were made since its history was cleared.   *)
C24_ClearHistory ==
    /\ (Cleared /\ call.symbol # <<>>) =>
           /\ call.symbol[1] \notin DOMAIN signalHistory
           /\ \A s \in DOMAIN call.pre \ {call.symbol[1]} :
                  s \in DOMAIN signalHistory /\ signalHistory[s] = call.pre[s]
    /\ (Cleared /\ call.symbol = <<>>) => signalHistory = EmptyHistory
    /\ (Evaluated /\ result # <<>> /\ Returned.stable) =>
           sinceClear[call.symbol] >= STABILITY_BUFFER

\* clearHistory with a symbol that is not the empty string
C24_NamedClear ==
    (Cleared /\ Truthy(call.symbol)) =>
        /\ call.symbol[1] \notin DOMAIN signalHistory
        /\ \A s \in DOMAIN call.pre \ {call.symbol[1]} :
               s \in DOMAIN signalHistory /\ signalHistory[s] = call.pre[s]

\* no stable record before STABILITY_BUFFER evaluations since the clear
C24_UnstableAfterClear ==
    (Evaluated /\ result # <<>> /\ Returned.stable) =>
        sinceClear[call.symbol] >= STABILITY_BUFFER

Updated == call.op = "updateAllTokens"
Iterated == call.op = "updateSingleToken"
UpdateResult == result[1]
TokensOf(visited) == [i \in 1..Len(visited) |-> visited[i].token]
FailedOf(visited) == SelectSeq(visited, LAMBDA v : v.threw)
\* the entries of errors that name a token, by the symbol they start with
ErrorSymbols(errors) ==
    LET named == SelectSeq(errors, LAMBDA e : e # "No active tokens configured")
    IN  [i \in 1..Len(named) |-> named[i][1]]

(* C25: updateAllTokens runs its loop body for every active token exactly  *)
(* once, in the order of the list; a token whose update throws is counted  *)
(* as failed and the loop goes on with the next token; when it returns,    *)
(* processed + failed is the number of active tokens, errors holds exactly *)
(* one entry for each failed token, in order, and it returns a result and  *)
(* does not throw.                                                         *)
C25_EveryTokenOnce ==
    /\ Iterated =>
           /\ callers # <<>>
           /\ callers.next = call.index + 1
           /\ call.token = callers.activeTokens[call.index]
           /\ TokensOf(callers.visited) = SubSeq(callers.activeTokens, 1, call.index)
    /\ Updated =>
           /\ ~call.threw
           /\ result # <<>>
           /\ TokensOf(call.visited) = call.activeTokens
           /\ UpdateResult.processed + UpdateResult.failed = Len(call.activeTokens)
           /\ UpdateResult.failed = Len(FailedOf(call.visited))
           /\ ErrorSymbols(UpdateResult.errors) =
                  [i \in 1..Len(FailedOf(call.visited)) |->
                      FailedOf(call.visited)[i].token.symbol]

\* a cycle whose first token failed and whose second token was processed
C25_Witness ==
    /\ Updated
    /\ Len(call.visited) = 2
    /\ call.visited[1].threw
    /\ ~call.visited[2].threw
    /\ UpdateResult.processed = 1
    /\ UpdateResult.failed = 1

SignalTotal(res) == res.signals.BUY + res.signals.SELL + res.signals.NONE

(* C26: when updateAllTokens returns, BUY + SELL + NONE equals processed:  *)
(* every processed token incremented one signal counter and no failed      *)
(* token incremented any.                                                  *)
C26_CountersMatchProcessed ==
    Updated => SignalTotal(UpdateResult) = UpdateResult.processed

\* the same with the first TokenManager, whose updateToken returns false
C26_InMemoryManager ==
    (Updated /\ app.tokenManager = "memory") =>
        SignalTotal(UpdateResult) = UpdateResult.processed

\* the same with the service of part_002, which counts after its last await
C26_Part002 ==
    (Updated /\ app.indicatorService = "part_002") =>
        SignalTotal(UpdateResult) = UpdateResult.processed

\* the pairs the fetch of the last iteration had to go through, from the source
PairsOfCall == PairsToTry(app.indicatorService, call.token.symbol, call.token.pair)
FirstAnswer(pairs, fetched) ==
    CHOOSE i \in 1..Len(pairs) : fetched[i] /\ \A j \in 1..(i - 1) : ~fetched[j]
PairInTable(rows, symbol) ==
    {rows[i].pair : i \in {j \in 1..Len(rows) : rows[j].symbol = symbol}}

(* C27: fetchPriceDataWithFallbacks calls fetchPriceData for the           *)
(* configured pair first and then for the fallback pairs of the symbol in  *)
(* their listed order; it returns the answer of the first pair that        *)
(* answers and tries no later pair; it throws only when every pair failed; *)
(* and it writes a pair to the token only when a fallback answered, a      *)
(* failure of that write leaving the fetch successful.                     *)
C27_FallbackOrder ==
    Iterated =>
        /\ StartsWith(PairsOfCall, call.attempted)
        /\ call.attempted # <<>>
        /\ call.attempted[1] = call.token.pair
        /\ call.fetchThrew <=> \A i \in 1..Len(PairsOfCall) : ~call.fetched[i]
        /\ call.fetchThrew => call.attempted = PairsOfCall
        /\ ~call.fetchThrew =>
               /\ Len(call.attempted) = FirstAnswer(PairsOfCall, call.fetched)
               /\ call.pair = PairsOfCall[FirstAnswer(PairsOfCall, call.fetched)]
        /\ call.persisted # <<>> <=> (~call.fetchThrew /\ Len(call.attempted) > 1)
        /\ call.persisted # <<>> => call.persisted = <<call.pair>>
        /\ call.persisted = <<>> => (tokens = call.pre /\ dbTokens = call.preRows)
        /\ (call.persisted # <<>> /\ call.pairOk) =>
               PairInTable(dbTokens, call.token.symbol) = {call.pair}
        /\ (call.persisted # <<>> /\ ~call.pairOk) =>
               (~call.fetchThrew /\ ~call.threw /\ dbTokens = call.preRows)

\* the second fallback of BONK answered after two failures, and the write of
\* the pair was refused
C27_Witness ==
    /\ Iterated
    /\ call.token.symbol = "BONK"
    /\ Len(call.attempted) = 3
    /\ ~call.fetchThrew
    /\ call.persisted = <<"3Ne4">>
    /\ ~call.pairOk
    /\ ~call.threw

CycleEnded == call.op = "runUpdateCycle"
CycleFailed == CycleEnded /\ call.outcome = "rejected"
\* the loops of the application: an armed interval, or a start() that will arm one
Loops == app.intervals + (IF app.awaiting THEN 1 ELSE 0)

LoopInvariant ==
    /\ CycleEnded => call.settled = "fulfilled"
    /\ CycleFailed =>
           /\ ~app.exited
           /\ app.isRunning = call.pre.isRunning
           /\ app.isRunning => app.intervals > 0
    /\ (call.op = "start" /\ call.pre.isRunning) => app = call.pre
    /\ Loops <= 1
    /\ (app.stopping \/ app.exited) => (~app.isRunning /\ app.started = call.pre.started)

(* C28: runUpdateCycle never lets an error out: a rejected updateAllTokens *)
(* leaves its promise fulfilled, the process alive and the interval timer  *)
(* armed, and while isRunning stays true a failed cycle is followed by the *)
(* start of another cycle; start() on a running application changes        *)
(* nothing, so there is never more than one loop; and from the moment      *)
(* shutdown() has set isRunning to false no cycle is started any more.     *)
C28_LoopSurvivesFailures ==
    /\ []LoopInvariant
    /\ [][(~app.isRunning /\ app.started > 0) => app'.started = app.started]_vars
    /\ \A k \in 1..(MaxLoopCycles - 1) :
           (CycleFailed /\ app.isRunning /\ app.started = k)
               ~> (app.started > k \/ ~app.isRunning)

\* a cycle started by the timer failed while the application keeps running
C28_Witness ==
    /\ CycleFailed
    /\ ~call.initial
    /\ app.isRunning
    /\ app.intervals = 1
    /\ app.started >= 2

Mutated == call.op \in {"addToken", "updateToken", "removeToken"}
SymbolsOf(list) == [i \in 1..Len(list) |-> list[i].symbol]
NoDuplicates(list) ==
    \A i \in 1..Len(list), j \in 1..Len(list) : list[i].symbol = list[j].symbol => i = j

(* C29: a call of addToken, updateToken or removeToken of the in-memory    *)
(* TokenManager that returns false leaves this.tokens as it was before the *)
(* call, also when it is the database that refused the write; and the list *)
(* never holds two tokens with the same symbol.                            *)
C29_FalseLeavesListUnchanged ==
    /\ (Mutated /\ result = <<FALSE>>) => tokens = call.pre
    /\ NoDuplicates(tokens)

\* addToken alone: a refused save is rolled back, and no symbol is doubled
C29_AddToken ==
    /\ (call.op = "addToken" /\ result = <<FALSE>>) => tokens = call.pre
    /\ NoDuplicates(tokens)

LastOf(seq) == seq[Len(seq)]
\* the n-th price fetched for a symbol is n: the history holds the last
\* prices fetched, oldest first, when it is the run of integers ending in
\* the number of prices fetched so far
MostRecentInOrder(history) ==
    /\ Len(history) <= PRICE_HISTORY_LIMIT
    /\ history # <<>> =>
           /\ Len(history) = Min(LastOf(history), PRICE_HISTORY_LIMIT)
           /\ history = [i \in 1..Len(history) |-> LastOf(history) - Len(history) + i]

(* C30: the in-memory price history of every symbol holds at most 1440     *)
(* prices, and they are the most recently fetched prices of the symbol in  *)
(* the order they were fetched, the oldest one being dropped when the      *)
(* limit is passed; an update whose fetch succeeds appends the fetched     *)
(* price to the history of its symbol and to no other, and an update       *)
(* whose fetch fails appends nothing.                                      *)
C30_PriceHistoryBounded ==
    /\ \A s \in DOMAIN priceHistories : MostRecentInOrder(priceHistories[s])
    /\ (Iterated /\ call.fetchThrew) => priceHistories = call.prePrices
    /\ (Iterated /\ ~call.fetchThrew /\ app.indicatorService = "part_002") =>
           /\ LastOf(priceHistories[call.token.symbol]) =
                  NextPrice(call.prePrices, call.token.symbol)
           /\ \A s \in DOMAIN call.prePrices \ {call.token.symbol} :
                  priceHistories[s] = call.prePrices[s]

\* a price fetched for a full history: the oldest price is gone
C30_Witness ==
    /\ Iterated
    /\ ~call.fetchThrew
    /\ Len(call.prePrices[call.token.symbol]) = PRICE_HISTORY_LIMIT
    /\ Len(priceHistories[call.token.symbol]) = PRICE_HISTORY_LIMIT
    /\ priceHistories[call.token.symbol][1] = 2
    /\ LastOf(priceHistories[call.token.symbol]) = PRICE_HISTORY_LIMIT + 1

====
